---- MODULE Spec2Model ----
(***************************************************************************)
(* A model of the music library: the timeline entities (music_elements.py, *)
(* track.py, composition.py), the MIDI exporter (midi_exporter.py) and the *)
(* chord resolver (modular_chord_generator.py and its siblings), and the   *)
(* music-theory helpers of the generator scripts (get_diatonic_chords,     *)
(* get_scale_notes, generate_polyrhythm_onsets), and the generation loops  *)
(* of polyrhythm_harmony_generator.py and of the three arpeggiators.       *)
(*                                                                         *)
(* Beat values are Python floats in the code.  The model keeps them as     *)
(* dyadic rationals: an integer n stands for n / BeatDen beats.  Sums and  *)
(* products of such values with ticks_per_beat are exact in IEEE doubles,  *)
(* so the integer arithmetic below is the arithmetic of the code.          *)
(***************************************************************************)
EXTENDS Integers, Sequences, FiniteSets, Bags, TLC

VARIABLES
    composition,   \* the Composition: title, tempo, time_signature, tracks
    added,         \* per track, the bag of elements add_element was given
    exports,       \* what the last two export() calls since the last mutation did
    raised,        \* the exception the last call raised, or "none"
    chord_pc,      \* get_chord_pitches: "idle", "invert" or "done"
    chord_args,    \* get_chord_pitches: the arguments of the call
    pitches,       \* get_chord_pitches: the local list `pitches`
    inv_i,         \* get_chord_pitches: rotation steps done so far
    popped,        \* per rotation step: the pitch removed and the lowest before
    parsed,        \* get_chord_pitches: the locals root_name, quality_str, quality
    entity,        \* the Note, Rest, Chord, Track or Composition a constructor made
    call,          \* a music-theory helper: the function called and its arguments
    result,        \* a music-theory helper: what the call returned or raised
    loop           \* a generator script's main loop: its locals and position

vars == <<composition, added, exports, raised, chord_pc, chord_args, pitches, inv_i, popped, parsed, entity, call, result, loop>>

timelineVars == <<composition, added, exports, raised>>
chordVars == <<chord_pc, chord_args, pitches, inv_i, popped, parsed>>
helperVars == <<call, result>>

----------------------------------------------------------------------------
(* Bounds of the model.                                                     *)

MaxElems == 2         \* elements added over all tracks of the Composition
MaxInversion == 6     \* largest inversion argument
MaxHits == 6          \* largest hit count of a rhythm
MaxChordNotes == 3    \* notes of a Chord that add_note and add_pitches grow

(* Beat values are multiples of 1/BeatDen beat.                             *)
BeatDen == 2 ^ 10
OneBeat == BeatDen

(* MidiExporter.__init__: ticks_per_beat defaults to 480.                   *)
DefaultTicksPerBeat == 480

----------------------------------------------------------------------------
(* music_elements.py                                                        *)

Note(pitch, start_time, duration, velocity) ==
    [kind |-> "note", pitch |-> pitch, start_time |-> start_time,
     duration |-> duration, velocity |-> velocity]

(* Mutant of NoteValid: a duration of 0 is let through.                     *)
NoteValidZeroDuration(pitch, start_time, duration, velocity) ==
    /\ 0 <= pitch /\ pitch <= 127
    /\ 0 <= velocity /\ velocity <= 127
    /\ duration >= 0
    /\ start_time >= 0

NoteValid(pitch, start_time, duration, velocity) ==
    /\ 0 <= pitch /\ pitch <= 127
    /\ 0 <= velocity /\ velocity <= 127
    /\ duration > 0
    /\ start_time >= 0

Rest(start_time, duration) ==
    [kind |-> "rest", start_time |-> start_time, duration |-> duration]

RestValid(start_time, duration) ==
    /\ duration > 0
    /\ start_time >= 0

(* sorted(notes, key=pitch) and list.sort(key=...): Python's sort is        *)
(* stable, so an item's place is the number of items with a smaller key     *)
(* plus the number of earlier items with an equal key.                      *)
(* keys[i] is the key of seq[i].                                            *)
StableSortBy(seq, keys) ==
    LET n == Len(seq)
        rank(i) == 1 + Cardinality({j \in (1..n) \ {i} :
                        \/ keys[j] < keys[i]
                        \/ (keys[j] = keys[i] /\ j < i)})
    IN  [p \in 1..n |-> seq[CHOOSE i \in 1..n : rank(i) = p]]

(* key=lambda n: n.pitch                                                    *)
PitchKeys(notes) == [i \in 1..Len(notes) |-> notes[i].pitch]

(* Chord.__init__: the notes, sorted by pitch.                              *)
Chord(notes) ==
    [kind |-> "chord", notes |-> StableSortBy(notes, PitchKeys(notes))]

None == "None"

(* `if not self._notes: return None` of Chord.start_time and                *)
(* Chord.duration: a Chord without notes has neither.                       *)
IsNone(e) == e.kind = "chord" /\ e.notes = <<>>

(* Chord.start_time / Chord.duration, and the attribute of a Note or Rest.  *)
StartTime(e) ==
    IF e.kind = "chord"
    THEN IF IsNone(e) THEN None ELSE e.notes[1].start_time
    ELSE e.start_time

Duration(e) ==
    IF e.kind = "chord"
    THEN IF IsNone(e) THEN None ELSE e.notes[1].duration
    ELSE e.duration

IsElement(e) == e.kind \in {"note", "chord", "rest"}

(* isinstance(n, Note)                                                      *)
IsNote(n) == n.kind = "note"

(* Mutant of NoteTranspose: the sum is stored without the clamp.            *)
NoteTransposeUnclamped(note, semitones) ==
    [note EXCEPT !.pitch = @ + semitones]

(* Note.transpose: self.pitch = max(0, min(127, self.pitch + semitones))    *)
NoteTranspose(note, semitones) ==
    LET sum == note.pitch + semitones
        low == IF sum < 127 THEN sum ELSE 127
    IN  [note EXCEPT !.pitch = IF low > 0 THEN low ELSE 0]

(* Chord.__init__: `if notes:` and a list entry that is no Note.            *)
ChordInitRaises(notes) ==
    notes # <<>> /\ \E i \in 1..Len(notes) : ~IsNote(notes[i])

(* Mutant of ChordAddNote: the note is appended and the list left as it is. *)
ChordAddNoteUnsorted(chord, note) ==
    IF ~IsNote(note)
    THEN [obj |-> chord, raised |-> "ValueError"]
    ELSE [obj |-> [chord EXCEPT !.notes = Append(@, note)], raised |-> "none"]

(* Chord.add_note: a non-Note is refused; a Note is appended and the list   *)
(* sorted by pitch again.                                                   *)
ChordAddNote(chord, note) ==
    IF ~IsNote(note)
    THEN [obj |-> chord, raised |-> "ValueError"]
    ELSE LET appended == Append(chord.notes, note)
         IN  [obj |-> [chord EXCEPT !.notes =
                          StableSortBy(appended, PitchKeys(appended))],
              raised |-> "none"]

(* Chord.add_pitches: one add_note per pitch, in order; the Note            *)
(* constructor may raise, and the notes added before it stay.               *)
RECURSIVE ChordAddPitches(_, _, _, _, _)
ChordAddPitches(chord, pitch_list, start_time, duration, velocity) ==
    IF pitch_list = <<>>
    THEN [obj |-> chord, raised |-> "none"]
    ELSE IF ~NoteValid(Head(pitch_list), start_time, duration, velocity)
    THEN [obj |-> chord, raised |-> "ValueError"]
    ELSE ChordAddPitches(
             ChordAddNote(chord, Note(Head(pitch_list), start_time, duration,
                                      velocity)).obj,
             Tail(pitch_list), start_time, duration, velocity)

(* Chord.transpose: every note is transposed in place; the list is not      *)
(* sorted again.                                                            *)
ChordTranspose(chord, semitones) ==
    [chord EXCEPT !.notes =
        [i \in 1..Len(chord.notes) |-> NoteTranspose(chord.notes[i], semitones)]]

(* track.py: Track.__init__ with its default pan and volume.                *)
DefaultPan == 64
DefaultVolume == 100

TrackValid(instrument_program, channel, pan, volume) ==
    /\ 0 <= instrument_program /\ instrument_program <= 127
    /\ 0 <= channel /\ channel <= 15
    /\ 0 <= pan /\ pan <= 127
    /\ 0 <= volume /\ volume <= 127

Track(name, instrument_program, channel, pan, volume) ==
    [name |-> name, instrument_program |-> instrument_program,
     channel |-> channel, elements |-> <<>>, pan |-> pan, volume |-> volume]

(* `if name:` of set_instrument: None and the empty string are not taken.   *)
Truthy(name) == name # None /\ name # ""

(* Mutant of TrackSetInstrument: the program is assigned without the test.  *)
TrackSetInstrumentUnchecked(track, instrument_program, name) ==
    [obj |-> [track EXCEPT !.instrument_program = instrument_program,
                           !.name = IF Truthy(name) THEN name ELSE @],
     raised |-> "none"]

(* Track.set_instrument: the new track and what the call raised.            *)
TrackSetInstrument(track, instrument_program, name) ==
    IF ~(0 <= instrument_program /\ instrument_program <= 127)
    THEN [obj |-> track, raised |-> "ValueError"]
    ELSE [obj |-> [track EXCEPT !.instrument_program = instrument_program,
                                !.name = IF Truthy(name) THEN name ELSE @],
          raised |-> "none"]

(* The comparison of two sort keys raises TypeError when one of them is     *)
(* None (a Chord with no notes); a list of fewer than two items is sorted   *)
(* without any comparison.                                                  *)
(* key=lambda x: x.start_time                                               *)
StartTimeKeys(elements) ==
    [i \in 1..Len(elements) |-> StartTime(elements[i])]

SortRaises(elements) ==
    /\ Len(elements) >= 2
    /\ \E i \in 1..Len(elements) : IsNone(elements[i])

(* Mutant of TrackAddElement: the list is not sorted after the append.      *)
TrackAddElementNoSort(elements, element) ==
    IF ~IsElement(element)
    THEN [elements |-> elements, raised |-> "TypeError"]
    ELSE [elements |-> Append(elements, element),
          raised |-> IF SortRaises(Append(elements, element))
                     THEN "TypeError" ELSE "none"]

(* Track.add_element on the list `elements`: the new list and the           *)
(* exception raised.  The element is appended before the sort; a sort that  *)
(* raises at its first comparison with None has moved nothing yet, the      *)
(* items before the first keyless Chord being in ascending order already.   *)
TrackAddElement(elements, element) ==
    IF ~IsElement(element)
    THEN [elements |-> elements, raised |-> "TypeError"]
    ELSE LET appended == Append(elements, element)
         IN  IF SortRaises(appended)
             THEN [elements |-> appended, raised |-> "TypeError"]
             ELSE [elements |-> StableSortBy(appended, StartTimeKeys(appended)),
                   raised |-> "none"]

(* Track.add_notes: add_element for each item in turn, stopping at the      *)
(* first item that is no Note or whose add_element raises.                  *)
RECURSIVE TrackAddNotes(_, _)
TrackAddNotes(elements, notes) ==
    IF notes = <<>>
    THEN [elements |-> elements, raised |-> "none"]
    ELSE IF Head(notes).kind # "note"
         THEN [elements |-> elements, raised |-> "TypeError"]
         ELSE LET r == TrackAddElement(elements, Head(notes))
              IN  IF r.raised # "none"
                  THEN r
                  ELSE TrackAddNotes(r.elements, Tail(notes))

----------------------------------------------------------------------------
(* composition.py                                                           *)

DefaultTempo == 120

NewComposition ==
    [title |-> "Untitled Composition", tracks |-> <<>>,
     tempo |-> DefaultTempo, time_signature |-> <<4, 4>>]

(* Composition.__init__: tempo > 0 and a time signature of two positive     *)
(* integers, else ValueError.                                               *)
CompositionValid(tempo, time_signature) ==
    /\ tempo > 0
    /\ Len(time_signature) = 2
    /\ \A k \in 1..Len(time_signature) : time_signature[k] > 0

Composition(title, tempo, time_signature) ==
    [title |-> title, tracks |-> <<>>, tempo |-> tempo,
     time_signature |-> time_signature]

(* Composition.set_tempo: the new composition and what the call raised.     *)
CompositionSetTempo(comp, tempo) ==
    IF tempo <= 0
    THEN [obj |-> comp, raised |-> "ValueError"]
    ELSE [obj |-> [comp EXCEPT !.tempo = tempo], raised |-> "none"]

(* isinstance(track, Track)                                                 *)
IsTrack(track) == "elements" \in DOMAIN track

(* Mutant of CompositionAddTrack: a channel already in use is refused.      *)
CompositionAddTrackUniqueChannel(comp, track) ==
    IF ~IsTrack(track)
    THEN [obj |-> comp, raised |-> "TypeError"]
    ELSE IF \E i \in 1..Len(comp.tracks) : comp.tracks[i].channel = track.channel
    THEN [obj |-> comp, raised |-> "ValueError"]
    ELSE [obj |-> [comp EXCEPT !.tracks = Append(@, track)], raised |-> "none"]

(* Composition.add_track: a non-Track is refused before the list is         *)
(* touched; a channel already in use only prints a warning.                 *)
CompositionAddTrack(comp, track) ==
    IF ~IsTrack(track)
    THEN [obj |-> comp, raised |-> "TypeError"]
    ELSE [obj |-> [comp EXCEPT !.tracks = Append(@, track)], raised |-> "none"]

----------------------------------------------------------------------------
(* The values the calls of the model are made with.                         *)

DefaultVelocity == 100
Channels == {0, 1}

(* Two notes of one pitch that meet at beat 1, and a note of 1/1024 beat    *)
(* from 1/1024 beat on, which starts and ends within one tick.              *)
NoteChoices ==
    {Note(60, 0, OneBeat, DefaultVelocity),
     Note(60, OneBeat, OneBeat, DefaultVelocity),
     Note(64, 1, 1, DefaultVelocity)}

(* Chords as their constructor gets them: no notes, notes that share start  *)
(* and duration (given out of pitch order), and notes that do not.          *)
ChordChoices ==
    {Chord(<<>>),
     Chord(<<Note(64, 0, OneBeat, DefaultVelocity),
             Note(60, 0, OneBeat, DefaultVelocity)>>),
     Chord(<<Note(60, 0, OneBeat, DefaultVelocity),
             Note(64, OneBeat, 1, DefaultVelocity)>>)}

RestChoices == {Rest(0, OneBeat)}

(* An object that is no Note, Chord or Rest.                                *)
Junk == [kind |-> "other"]

ElementChoices == NoteChoices \cup ChordChoices \cup RestChoices \cup {Junk}

NoteListChoices ==
    {<<a, b>> : a \in {Note(60, OneBeat, OneBeat, DefaultVelocity), Junk},
                b \in {Note(64, 1, 1, DefaultVelocity), Junk}}

(* The tracks a Composition gets, in this order.                            *)
TrackNames == <<"Lead", "Bass">>

----------------------------------------------------------------------------
(* midi_exporter.py                                                         *)

(* int(x): truncation toward zero of the quotient num / den.                *)
TruncDiv(num, den) ==
    IF num >= 0 THEN num \div den ELSE -((-num) \div den)

(* round(): to the nearest integer, a tie to the even one.                  *)
RoundHalfEven(num, den) ==
    LET q == num \div den
        r == num % den
    IN  IF 2 * r < den THEN q
        ELSE IF 2 * r > den THEN q + 1
        ELSE IF q % 2 = 0 THEN q ELSE q + 1

(* Mutant of Tick: round(beats * ticks_per_beat) in place of int().         *)
TickRounded(beats, ticks_per_beat) ==
    RoundHalfEven(beats * ticks_per_beat, BeatDen)

(* int(beats * self.ticks_per_beat), beats given in 1/BeatDen beat.         *)
Tick(beats, ticks_per_beat) == TruncDiv(beats * ticks_per_beat, BeatDen)

NoteOn(tick, note, channel) ==
    [tick |-> tick, type |-> "note_on", note |-> note.pitch,
     velocity |-> note.velocity, channel |-> channel]

NoteOff(tick, note, channel) ==
    [tick |-> tick, type |-> "note_off", note |-> note.pitch,
     velocity |-> 0, channel |-> channel]

(* The pairs a Chord appends to `events`: every note of the chord at the    *)
(* chord's start and end tick.                                              *)
RECURSIVE ChordEvents(_, _, _, _)
ChordEvents(notes, start_ticks, end_ticks, channel) ==
    IF notes = <<>>
    THEN <<>>
    ELSE <<NoteOn(start_ticks, Head(notes), channel),
           NoteOff(end_ticks, Head(notes), channel)>>
         \o ChordEvents(Tail(notes), start_ticks, end_ticks, channel)

(* Mutant of ElementEvents: every note of a Chord is written with its own   *)
(* start time and duration.                                                 *)
ElementEventsOwnTiming(element, channel, ticks_per_beat) ==
    IF element.kind = "note"
    THEN <<NoteOn(TruncDiv(element.start_time * ticks_per_beat, BeatDen),
                  element, channel),
           NoteOff(TruncDiv((element.start_time + element.duration)
                                * ticks_per_beat, BeatDen),
                   element, channel)>>
    ELSE IF element.kind = "chord"
    THEN LET pair(n) ==
                 <<NoteOn(TruncDiv(n.start_time * ticks_per_beat, BeatDen),
                          n, channel),
                   NoteOff(TruncDiv((n.start_time + n.duration)
                                        * ticks_per_beat, BeatDen),
                           n, channel)>>
             all[k \in 0..Len(element.notes)] ==
                 IF k = 0 THEN <<>> ELSE all[k - 1] \o pair(element.notes[k])
         IN  all[Len(element.notes)]
    ELSE <<>>

(* Mutant of ElementEvents: a Rest writes a NoteOff of pitch 0 at its end.  *)
ElementEventsRestSounds(element, channel, ticks_per_beat) ==
    IF element.kind = "rest"
    THEN <<[tick |-> TruncDiv((element.start_time + element.duration)
                                  * ticks_per_beat, BeatDen),
            type |-> "note_off", note |-> 0, velocity |-> 0,
            channel |-> channel]>>
    ELSE IF element.kind = "note"
    THEN <<NoteOn(Tick(element.start_time, ticks_per_beat), element, channel),
           NoteOff(Tick(element.start_time + element.duration, ticks_per_beat),
                   element, channel)>>
    ELSE IF element.kind = "chord" /\ ~IsNone(element)
    THEN ChordEvents(element.notes,
                     Tick(StartTime(element), ticks_per_beat),
                     Tick(StartTime(element) + Duration(element),
                          ticks_per_beat),
                     channel)
    ELSE <<>>

(* One pass of the loop over track_obj.elements: what the element appends   *)
(* to `events`.  The branch for a Chord without notes prints a warning and  *)
(* skips it; a Rest appends nothing.                                        *)
ElementEvents(element, channel, ticks_per_beat) ==
    IF element.kind = "note"
    THEN <<NoteOn(Tick(element.start_time, ticks_per_beat), element, channel),
           NoteOff(Tick(element.start_time + element.duration, ticks_per_beat),
                   element, channel)>>
    ELSE IF element.kind = "chord"
    THEN IF IsNone(element)
         THEN <<>>
         ELSE ChordEvents(element.notes,
                          Tick(StartTime(element), ticks_per_beat),
                          Tick(StartTime(element) + Duration(element),
                               ticks_per_beat),
                          channel)
    ELSE <<>>

RECURSIVE CollectEvents(_, _, _)
CollectEvents(elements, channel, ticks_per_beat) ==
    IF elements = <<>>
    THEN <<>>
    ELSE ElementEvents(Head(elements), channel, ticks_per_beat)
         \o CollectEvents(Tail(elements), channel, ticks_per_beat)

(* Mutant of EventKey: the events are sorted by tick alone.                 *)
EventKeyTickOnly(ev) == ev.tick

(* The sort key (x[0], 0 if note_off else 1): the pairs compare first by    *)
(* tick, then by the second component, as 2 * tick + component does.        *)
EventKey(ev) == 2 * ev.tick + (IF ev.type = "note_off" THEN 0 ELSE 1)

SortEvents(events) ==
    StableSortBy(events, [i \in 1..Len(events) |-> EventKey(events[i])])

(* Mutant of DeltaTimes: last_tick_time is never updated.                   *)
DeltaTimesStale(events) == [i \in 1..Len(events) |-> events[i].tick]

(* The loop that turns absolute times into delta times: last_tick_time is   *)
(* 0 before the first event of the track and the previous event's tick      *)
(* after it.                                                                *)
DeltaTimes(events) ==
    [i \in 1..Len(events) |->
        events[i].tick - (IF i = 1 THEN 0 ELSE events[i - 1].tick)]

NoteMessages(events) ==
    LET delta == DeltaTimes(events)
    IN  [i \in 1..Len(events) |->
            [type |-> events[i].type, note |-> events[i].note,
             velocity |-> events[i].velocity, channel |-> events[i].channel,
             time |-> delta[i]]]

(* The events of one track, sorted: the list the delta loop runs over.      *)
TrackEvents(track, ticks_per_beat) ==
    SortEvents(CollectEvents(track.elements, track.channel, ticks_per_beat))

(* Mutant of TrackChunk: a track without note events gets no end_of_track.  *)
TrackChunkOpenWhenEmpty(track, ticks_per_beat) ==
    LET events == SortEvents(CollectEvents(track.elements, track.channel,
                                           ticks_per_beat))
    IN  << [type |-> "track_name", name |-> track.name, time |-> 0],
           [type |-> "program_change", program |-> track.instrument_program,
            channel |-> track.channel, time |-> 0],
           [type |-> "control_change", control |-> 10, value |-> track.pan,
            channel |-> track.channel, time |-> 0],
           [type |-> "control_change", control |-> 7, value |-> track.volume,
            channel |-> track.channel, time |-> 0] >>
        \o NoteMessages(events)
        \o (IF events = <<>> THEN <<>>
            ELSE << [type |-> "end_of_track", time |-> 0] >>)

(* The mido track of one Track: four setup messages, the note messages and  *)
(* end_of_track, which gets time 1 when the track has no note event.        *)
TrackChunk(track, ticks_per_beat) ==
    LET events == TrackEvents(track, ticks_per_beat)
    IN  << [type |-> "track_name", name |-> track.name, time |-> 0],
           [type |-> "program_change", program |-> track.instrument_program,
            channel |-> track.channel, time |-> 0],
           [type |-> "control_change", control |-> 10, value |-> track.pan,
            channel |-> track.channel, time |-> 0],
           [type |-> "control_change", control |-> 7, value |-> track.volume,
            channel |-> track.channel, time |-> 0] >>
        \o NoteMessages(events)
        \o << [type |-> "end_of_track",
               time |-> IF events = <<>> THEN 1 ELSE 0] >>

(* mido.bpm2tempo: microseconds per beat, rounded.                          *)
Bpm2Tempo(bpm) == RoundHalfEven(60 * 1000000, bpm)

MetaChunk(comp) ==
    << [type |-> "track_name", name |-> comp.title, time |-> 0],
       [type |-> "set_tempo", tempo |-> Bpm2Tempo(comp.tempo), time |-> 0],
       [type |-> "time_signature", numerator |-> comp.time_signature[1],
        denominator |-> comp.time_signature[2], clocks_per_click |-> 24,
        notated_32nd_notes_per_beat |-> 8, time |-> 0] >>

(* Mutant of BuildFile: the meta track is appended after the tracks.        *)
BuildFileMetaLast(comp, ticks_per_beat) ==
    [ticks_per_beat |-> ticks_per_beat, type |-> 1,
     tracks |-> [t \in 1..Len(comp.tracks) |->
                    TrackChunk(comp.tracks[t], ticks_per_beat)]
                \o <<MetaChunk(comp)>>]

(* The mido.MidiFile export() builds: the meta track, then one track per    *)
(* Track of the Composition in the Composition's order.                     *)
BuildFile(comp, ticks_per_beat) ==
    [ticks_per_beat |-> ticks_per_beat, type |-> 1,
     tracks |-> <<MetaChunk(comp)>>
                \o [t \in 1..Len(comp.tracks) |->
                        TrackChunk(comp.tracks[t], ticks_per_beat)]]

(* Mutant of CompositionAfterExport: the loop takes the elements out of     *)
(* each track as it writes them.                                            *)
CompositionDrained(comp) ==
    [comp EXCEPT !.tracks =
        [t \in 1..Len(comp.tracks) |-> [comp.tracks[t] EXCEPT !.elements = <<>>]]]

(* export() reads the Composition, its Tracks and their elements and        *)
(* assigns to none of them: the messages it sets `time` on are its own.     *)
CompositionAfterExport(comp) == comp

(* Mutant of StartTicksRaises: start_ticks is computed for Notes only.       *)
StartTicksNeverRaises(element) == FALSE

(* start_ticks = int(element.start_time * self.ticks_per_beat) is the       *)
(* first statement of the loop body, before the element's type is looked    *)
(* at: for a Chord without notes start_time is None and the product raises  *)
(* TypeError.                                                               *)
StartTicksRaises(element) == IsNone(element)

ExportRaises(comp) ==
    \E t \in 1..Len(comp.tracks) : \E i \in 1..Len(comp.tracks[t].elements) :
        StartTicksRaises(comp.tracks[t].elements[i])

(* What one export() call did: the file it built, the sorted `events` list  *)
(* of every track, whether save() failed, whether the file was written and  *)
(* the exception the call left with.  A TypeError from the loop leaves      *)
(* export() before save(): nothing is built to the end or written.  The     *)
(* except clause around save() prints the error, so after a failed save()   *)
(* the call returns normally.                                               *)
ExportRecord(comp, ticks_per_beat, save_fails) ==
    IF ExportRaises(comp)
    THEN [file |-> [ticks_per_beat |-> ticks_per_beat, type |-> 1, tracks |-> <<>>],
          events |-> [t \in 1..Len(comp.tracks) |-> <<>>],
          save_failed |-> FALSE,
          written |-> FALSE,
          raised |-> "TypeError"]
    ELSE [file |-> BuildFile(comp, ticks_per_beat),
          events |-> [t \in 1..Len(comp.tracks) |->
                         TrackEvents(comp.tracks[t], ticks_per_beat)],
          save_failed |-> save_fails,
          written |-> ~save_fails,
          raised |-> "none"]

----------------------------------------------------------------------------
(* The timeline and its export as a state machine.                          *)

Last(seq) == seq[Len(seq)]

RECURSIVE SumLen(_)
SumLen(tracks) ==
    IF tracks = <<>> THEN 0 ELSE Len(Head(tracks).elements) + SumLen(Tail(tracks))

TotalElems == SumLen(composition.tracks)

(* No local of get_chord_pitches is bound yet.                              *)
Unparsed == [root_name |-> <<>>, quality_str |-> <<>>, quality |-> <<>>]

ChordIdle ==
    /\ chord_pc = "idle"
    /\ chord_args = <<>>
    /\ pitches = <<>>
    /\ inv_i = 0
    /\ popped = <<>>
    /\ parsed = Unparsed

NoEntity == [kind |-> "none"]

EntityIdle == entity = NoEntity

HelperIdle ==
    /\ call = [fn |-> "none"]
    /\ result = [status |-> "none"]

(* No generator script is running.                                          *)
NoLoop == [pc |-> "none"]

LoopIdle == loop = NoLoop

Init ==
    /\ composition = NewComposition
    /\ added = <<>>
    /\ exports = <<>>
    /\ raised = "none"
    /\ ChordIdle
    /\ EntityIdle
    /\ HelperIdle
    /\ LoopIdle

(* The next Track of TrackNames on either channel, or an object that is no  *)
(* Track.                                                                   *)
TrackChoices ==
    {Track(TrackNames[Len(composition.tracks) + 1], 0, ch, DefaultPan,
           DefaultVolume) : ch \in Channels} \cup {Junk}

(* comp.add_track(track)                                                    *)
AddTrack ==
    /\ Len(composition.tracks) < Len(TrackNames)
    /\ \E track \in TrackChoices :
        LET r == CompositionAddTrack(composition, track)
        IN  /\ IsTrack(track)
                  => TrackValid(track.instrument_program, track.channel,
                                track.pan, track.volume)
            /\ composition' = r.obj
            /\ added' = IF r.raised = "none" THEN Append(added, EmptyBag)
                        ELSE added
            /\ raised' = r.raised
    /\ exports' = <<>>
    /\ UNCHANGED <<chordVars, entity, helperVars, loop>>

(* track.add_element(element) on a track of the Composition.                *)
AddElement ==
    /\ TotalElems < MaxElems
    /\ \E t \in 1..Len(composition.tracks), element \in ElementChoices :
        LET r == TrackAddElement(composition.tracks[t].elements, element)
        IN  /\ composition' = [composition EXCEPT !.tracks[t].elements = r.elements]
            /\ added' = IF IsElement(element)
                        THEN [added EXCEPT ![t] = @ (+) SetToBag({element})]
                        ELSE added
            /\ raised' = r.raised
    /\ exports' = <<>>
    /\ UNCHANGED <<chordVars, entity, helperVars, loop>>

(* track.add_notes(notes) on a track of the Composition.                    *)
AddNotes ==
    /\ \E t \in 1..Len(composition.tracks), notes \in NoteListChoices :
        LET r == TrackAddNotes(composition.tracks[t].elements, notes)
            n == Len(r.elements) - Len(composition.tracks[t].elements)
        IN  /\ TotalElems + Len(notes) <= MaxElems
            /\ composition' = [composition EXCEPT !.tracks[t].elements = r.elements]
            /\ added' = [added EXCEPT ![t] =
                            @ (+) SetToBag({notes[i] : i \in 1..n})]
            /\ raised' = r.raised
    /\ exports' = <<>>
    /\ UNCHANGED <<chordVars, entity, helperVars, loop>>

(* MidiExporter(ticks_per_beat=480).export(composition, path); save() may   *)
(* fail with an I/O error.                                                  *)
Export ==
    /\ \E save_fails \in BOOLEAN :
        LET rec == ExportRecord(composition, DefaultTicksPerBeat, save_fails)
        IN  /\ exports' = IF exports = <<>> THEN <<rec>> ELSE <<Last(exports), rec>>
            /\ raised' = rec.raised
    /\ composition' = CompositionAfterExport(composition)
    /\ UNCHANGED <<added, chordVars, entity, helperVars, loop>>

Next ==
    \/ AddTrack
    \/ AddElement
    \/ AddNotes
    \/ Export

Spec == Init /\ [][Next]_vars

----------------------------------------------------------------------------
(* modular_chord_generator.py and chord_progression_generator.py.  A        *)
(* string is the sequence of its characters.                                *)

(* PITCH_MAP: the pairs of a note name and its pitch class.                 *)
PITCH_MAP ==
    << <<<<"C">>, 0>>,
       <<<<"C", "#">>, 1>>,
       <<<<"D", "b">>, 1>>,
       <<<<"D">>, 2>>,
       <<<<"D", "#">>, 3>>,
       <<<<"E", "b">>, 3>>,
       <<<<"E">>, 4>>,
       <<<<"F">>, 5>>,
       <<<<"F", "#">>, 6>>,
       <<<<"G", "b">>, 6>>,
       <<<<"G">>, 7>>,
       <<<<"G", "#">>, 8>>,
       <<<<"A", "b">>, 8>>,
       <<<<"A">>, 9>>,
       <<<<"A", "#">>, 10>>,
       <<<<"B", "b">>, 10>>,
       <<<<"B">>, 11>> >>

(* CHORD_VOICINGS of modular_chord_generator.py: the pairs of a quality    *)
(* name and its intervals from the root.                                   *)
CHORD_VOICINGS ==
    << <<<<"m", "a", "j">>, <<0, 4, 7>>>>,
       <<<<"m", "i", "n">>, <<0, 3, 7>>>>,
       <<<<"d", "i", "m">>, <<0, 3, 6>>>>,
       <<<<"a", "u", "g">>, <<0, 4, 8>>>>,
       <<<<"m", "a", "j", "(", "a", "u", "g", ")">>, <<0, 4, 8>>>>,
       <<<<"s", "u", "s", "2">>, <<0, 2, 7>>>>,
       <<<<"s", "u", "s", "4">>, <<0, 5, 7>>>>,
       <<<<"m", "a", "j", "7">>, <<0, 4, 7, 11>>>>,
       <<<<"d", "o", "m", "7">>, <<0, 4, 7, 10>>>>,
       <<<<"m", "i", "n", "7">>, <<0, 3, 7, 10>>>>,
       <<<<"d", "i", "m", "7">>, <<0, 3, 6, 9>>>>,
       <<<<"m", "7", "b", "5">>, <<0, 3, 6, 10>>>>,
       <<<<"m", "i", "n", "(", "m", "a", "j", "7", ")">>, <<0, 3, 7, 11>>>>,
       <<<<"a", "d", "d", "9">>, <<0, 4, 7, 14>>>>,
       <<<<"m", "i", "n", "(", "a", "d", "d", "9", ")">>, <<0, 3, 7, 14>>>>,
       <<<<"m", "a", "j", "9">>, <<0, 4, 7, 11, 14>>>>,
       <<<<"m", "i", "n", "9">>, <<0, 3, 7, 10, 14>>>>,
       <<<<"d", "o", "m", "9">>, <<0, 4, 7, 10, 14>>>>,
       <<<<"d", "o", "m", "1", "3">>, <<0, 4, 7, 10, 14, 21>>>>,
       <<<<"m", "a", "j", "1", "3">>, <<0, 4, 7, 11, 14, 21>>>>,
       <<<<"m", "i", "n", "1", "1">>, <<0, 3, 7, 10, 14, 17>>>>,
       <<<<"d", "o", "m", "7", "#", "9">>, <<0, 4, 7, 10, 15>>>>,
       <<<<"d", "o", "m", "7", "b", "9">>, <<0, 4, 7, 10, 13>>>>,
       <<<<"m", "a", "j", "7", "#", "1", "1">>, <<0, 4, 7, 11, 18>>>>,
       <<<<"m", "i", "n", "1", "3">>, <<0, 3, 7, 10, 14, 21>>>> >>

(* CHORD_VOICINGS of chord_progression_generator.py; the dict literal      *)
(* gives 'maj7' twice and the later entry, the dominant seventh, stays.    *)
PROGRESSION_VOICINGS ==
    << <<<<"m", "a", "j">>, <<0, 4, 7>>>>,
       <<<<"m", "i", "n">>, <<0, 3, 7>>>>,
       <<<<"d", "i", "m">>, <<0, 3, 6>>>>,
       <<<<"m", "a", "j", "(", "a", "u", "g", ")">>, <<0, 4, 8>>>>,
       <<<<"m", "a", "j", "7">>, <<0, 4, 7, 10>>>>,
       <<<<"m", "i", "n", "7">>, <<0, 3, 7, 10>>>>,
       <<<<"m", "i", "n", "7", "b", "5">>, <<0, 3, 6, 10>>>> >>

(* `key in table` and `table[key]` of a dict given as its pairs.            *)
HasKey(table, key) == \E i \in 1..Len(table) : table[i][1] = key

Lookup(table, key) == table[CHOOSE i \in 1..Len(table) : table[i][1] = key][2]

(* s[:n] and s[n:].                                                         *)
Prefix(s, n) == SubSeq(s, 1, n)
Suffix(s, n) == SubSeq(s, n + 1, Len(s))

(* Step 1 of get_chord_pitches: the root name is two characters when the    *)
(* second one is '#' or 'b', else one.                                      *)
RootLen(chord_symbol) ==
    IF Len(chord_symbol) > 1 /\ chord_symbol[2] \in {"#", "b"} THEN 2 ELSE 1

RootName(chord_symbol) == Prefix(chord_symbol, RootLen(chord_symbol))

QualityStr(chord_symbol) == Suffix(chord_symbol, RootLen(chord_symbol))

Maj == <<"m", "a", "j">>

Min == <<"m", "i", "n">>

(* `for length in range(len(quality_str), 0, -1)` from `length` on: the     *)
(* length at which the loop breaks, 0 when it runs out and `quality` stays  *)
(* None.                                                                    *)
RECURSIVE MatchLength(_, _)
MatchLength(quality_str, length) ==
    IF length = 0 THEN 0
    ELSE IF HasKey(CHORD_VOICINGS, Prefix(quality_str, length)) THEN length
    ELSE MatchLength(quality_str, length - 1)

(* Mutant of ModularQuality: the default quality is 'min'.                  *)
ModularQualityDefaultMin(quality_str) ==
    LET length == MatchLength(quality_str, Len(quality_str))
    IN  IF length = 0 THEN Min ELSE Prefix(quality_str, length)

(* Step 2 of modular_chord_generator.get_chord_pitches: the first prefix    *)
(* of quality_str, from the longest down to one character, that is a key    *)
(* of CHORD_VOICINGS; 'maj' when there is none.                             *)
ModularQuality(quality_str) ==
    LET length == MatchLength(quality_str, Len(quality_str))
    IN  IF length = 0 THEN Maj ELSE Prefix(quality_str, length)

(* chord_progression_generator.get_chord_pitches: the whole remainder when  *)
(* it is a key of the table, else 'maj'.                                    *)
ProgressionQuality(quality_str) ==
    IF HasKey(PROGRESSION_VOICINGS, quality_str) THEN quality_str ELSE Maj

(* root_pitch = PITCH_MAP[root_name] + ((base_octave + octave_offset) * 12) *)
RootPitch(root_name, base_octave, octave_offset) ==
    Lookup(PITCH_MAP, root_name) + ((base_octave + octave_offset) * 12)

(* pitches = [root_pitch + i for i in intervals]                            *)
RootPosition(root_pitch, intervals) ==
    [k \in 1..Len(intervals) |-> root_pitch + intervals[k]]

(* One pass of the inversion loop: bass_note = pitches.pop(0), then         *)
(* pitches.append(bass_note + 12).                                          *)
Rotate(ps) == Append(Tail(ps), Head(ps) + 12)

(* The quality the call settles on and the intervals it works with, by the  *)
(* module the function belongs to.                                          *)
QualityOf(impl, chord_symbol) ==
    IF impl = "modular"
    THEN ModularQuality(QualityStr(chord_symbol))
    ELSE ProgressionQuality(QualityStr(chord_symbol))

VoicingsOf(impl) ==
    IF impl = "modular" THEN CHORD_VOICINGS ELSE PROGRESSION_VOICINGS

VoicingOf(impl, chord_symbol) ==
    Lookup(VoicingsOf(impl), QualityOf(impl, chord_symbol))

----------------------------------------------------------------------------
(* get_chord_pitches as a state machine: the call, each pass of the         *)
(* inversion loop, the return.                                              *)

Keys(table) == {table[i][1] : i \in 1..Len(table)}

(* Root names: the keys of PITCH_MAP and two names that are none.           *)
RootChoices == Keys(PITCH_MAP) \cup {<<"H">>, <<"C", "b">>}

(* Quality texts: the keys of both voicing tables, the empty text and       *)
(* texts neither table has.                                                 *)
QualityChoices ==
    Keys(CHORD_VOICINGS) \cup Keys(PROGRESSION_VOICINGS)
        \cup {<<>>, <<"m">>, <<"7">>, <<"m", "i", "n", "6">>}

SymbolChoices == {r \o q : r \in RootChoices, q \in QualityChoices}

BaseOctaves == {4}
OctaveOffsets == {0, 1}

ChordCalls ==
    [impl : {"modular", "progression"}, chord_symbol : SymbolChoices,
     base_octave : BaseOctaves, octave_offset : OctaveOffsets,
     inversion : 0..MaxInversion]

TimelineIdle ==
    /\ composition = NewComposition
    /\ added = <<>>
    /\ exports = <<>>
    /\ raised = "none"

InitChord ==
    /\ TimelineIdle
    /\ EntityIdle
    /\ HelperIdle
    /\ LoopIdle
    /\ chord_pc = "called"
    /\ chord_args \in ChordCalls
    /\ pitches = <<>>
    /\ inv_i = 0
    /\ popped = <<>>
    /\ parsed = Unparsed

Lowest(ps) == CHOOSE x \in {ps[k] : k \in 1..Len(ps)} :
                  \A k \in 1..Len(ps) : x <= ps[k]

(* Steps 1 to 3: parse the symbol, raise ValueError for a root that is no   *)
(* key of PITCH_MAP, else build the root position pitches.  The modular     *)
(* version raises before it looks for the quality, the progression version  *)
(* after.                                                                   *)
GetChordPitchesBegin ==
    /\ chord_pc = "called"
    /\ IF ~HasKey(PITCH_MAP, RootName(chord_args.chord_symbol))
       THEN /\ chord_pc' = "raised"
            /\ raised' = "ValueError"
            /\ parsed' = [root_name |-> RootName(chord_args.chord_symbol),
                          quality_str |-> QualityStr(chord_args.chord_symbol),
                          quality |-> IF chord_args.impl = "modular" THEN <<>>
                                      ELSE QualityOf(chord_args.impl,
                                                     chord_args.chord_symbol)]
            /\ UNCHANGED pitches
       ELSE /\ pitches' = RootPosition(
                    RootPitch(RootName(chord_args.chord_symbol),
                              chord_args.base_octave, chord_args.octave_offset),
                    VoicingOf(chord_args.impl, chord_args.chord_symbol))
            /\ chord_pc' = "invert"
            /\ parsed' = [root_name |-> RootName(chord_args.chord_symbol),
                          quality_str |-> QualityStr(chord_args.chord_symbol),
                          quality |-> QualityOf(chord_args.impl,
                                                chord_args.chord_symbol)]
            /\ UNCHANGED raised
    /\ UNCHANGED <<composition, added, exports, chord_args, inv_i, popped,
                   entity, helperVars, loop>>

(* One pass of `for i in range(inversion)` with a non-empty list; `popped`  *)
(* notes the pitch the pass took and the lowest pitch of the list then.     *)
InvertStep ==
    /\ chord_pc = "invert"
    /\ inv_i < chord_args.inversion
    /\ pitches # <<>>
    /\ pitches' = Rotate(pitches)
    /\ popped' = Append(popped, [bass_note |-> Head(pitches),
                                 lowest |-> Lowest(pitches)])
    /\ inv_i' = inv_i + 1
    /\ UNCHANGED <<timelineVars, chord_pc, chord_args, parsed, entity, helperVars, loop>>

(* The loop ends (range exhausted, or `break` on an empty list) and the     *)
(* function returns `pitches`.                                              *)
GetChordPitchesReturn ==
    /\ chord_pc = "invert"
    /\ (inv_i >= chord_args.inversion \/ pitches = <<>>)
    /\ chord_pc' = "done"
    /\ UNCHANGED <<timelineVars, chord_args, pitches, inv_i, popped, parsed,
                   entity, helperVars, loop>>

NextChord ==
    \/ GetChordPitchesBegin
    \/ InvertStep
    \/ GetChordPitchesReturn

SpecChord == InitChord /\ [][NextChord]_vars

----------------------------------------------------------------------------
(* The music-theory helpers of the generator scripts: get_diatonic_chords,  *)
(* get_scale_notes and generate_polyrhythm_onsets.  A scale type is a plain *)
(* string, a note name or a chord symbol the sequence of its characters.    *)

(* NOTE_NAMES: the sharp-spelled name of each pitch class.                  *)
NOTE_NAMES ==
    << <<"C">>, <<"C", "#">>, <<"D">>, <<"D", "#">>, <<"E">>, <<"F">>, <<"F", "#">>, <<"G">>, <<"G", "#">>, <<"A">>, <<"A", "#">>, <<"B">> >>

(* SCALES of modular_chord_generator.py and chord_progression_generator.py. *)
SCALES ==
    << <<"major", <<0, 2, 4, 5, 7, 9, 11>>>>,
       <<"minor_natural", <<0, 2, 3, 5, 7, 8, 10>>>>,
       <<"minor_harmonic", <<0, 2, 3, 5, 7, 8, 11>>>> >>

(* DIATONIC_QUALITIES of modular_chord_generator.py.                        *)
DIATONIC_QUALITIES ==
    << <<"major",
          <<<<"m", "a", "j">>, <<"m", "i", "n">>, <<"m", "i", "n">>, <<"m", "a", "j">>, <<"d", "o", "m", "7">>, <<"m", "i", "n">>, <<"d", "i", "m">>>>>>,
       <<"minor_natural",
          <<<<"m", "i", "n">>, <<"d", "i", "m">>, <<"m", "a", "j">>, <<"m", "i", "n">>, <<"m", "i", "n">>, <<"m", "a", "j">>, <<"m", "a", "j">>>>>>,
       <<"minor_harmonic",
          <<<<"m", "i", "n">>, <<"d", "i", "m">>, <<"m", "a", "j", "(", "a", "u", "g", ")">>, <<"m", "i", "n">>, <<"d", "o", "m", "7">>, <<"m", "a", "j">>, <<"d", "i", "m">>>>>> >>

(* DIATONIC_QUALITIES of chord_progression_generator.py.                    *)
PROGRESSION_DIATONIC_QUALITIES ==
    << <<"major",
          <<<<"m", "a", "j">>, <<"m", "i", "n">>, <<"m", "i", "n">>, <<"m", "a", "j">>, <<"m", "a", "j", "7">>, <<"m", "i", "n">>, <<"d", "i", "m">>>>>>,
       <<"minor_natural",
          <<<<"m", "i", "n">>, <<"d", "i", "m">>, <<"m", "a", "j">>, <<"m", "i", "n">>, <<"m", "i", "n">>, <<"m", "a", "j">>, <<"m", "a", "j">>>>>>,
       <<"minor_harmonic",
          <<<<"m", "i", "n">>, <<"d", "i", "m">>, <<"m", "a", "j", "(", "a", "u", "g", ")">>, <<"m", "i", "n">>, <<"m", "a", "j", "7">>, <<"m", "a", "j">>, <<"d", "i", "m">>>>>> >>

(* SCALES of random_melody_generator.py and polyrhythm_melody_generator.py. *)
MELODY_SCALES ==
    << <<"major", <<0, 2, 4, 5, 7, 9, 11>>>>,
       <<"minor_natural", <<0, 2, 3, 5, 7, 8, 10>>>>,
       <<"minor_harmonic", <<0, 2, 3, 5, 7, 8, 11>>>>,
       <<"pentatonic_major", <<0, 2, 4, 7, 9>>>>,
       <<"pentatonic_minor", <<0, 3, 5, 7, 10>>>> >>

(* SCALES of generative_music_creator.py.                                   *)
GENERATIVE_SCALES ==
    << <<"major", <<0, 2, 4, 5, 7, 9, 11>>>>,
       <<"minor_natural", <<0, 2, 3, 5, 7, 8, 10>>>>,
       <<"minor_harmonic", <<0, 2, 3, 5, 7, 8, 11>>>>,
       <<"pentatonic_major", <<0, 2, 4, 7, 9>>>>,
       <<"blues", <<0, 3, 5, 6, 7, 10>>>> >>

(* str.upper() on the characters the calls use.                             *)
UpperChar(c) ==
    CASE c = "a" -> "A" [] c = "b" -> "B" [] c = "c" -> "C" [] c = "d" -> "D"
      [] c = "e" -> "E" [] c = "f" -> "F" [] c = "g" -> "G" [] c = "h" -> "H"
      [] OTHER -> c

Upper(s) == [i \in 1..Len(s) |-> UpperChar(s[i])]

Returned(value) == [status |-> "returned", value |-> value, exception |-> "none"]

Raised(exception) == [status |-> "raised", value |-> <<>>, exception |-> exception]

DiatonicQualitiesOf(impl) ==
    IF impl = "modular" THEN DIATONIC_QUALITIES ELSE PROGRESSION_DIATONIC_QUALITIES

(* get_diatonic_chords(root_name, scale_type): ValueError for a scale type  *)
(* one of the tables lacks, KeyError when root_name.upper() is no key of    *)
(* PITCH_MAP, else the seven symbols note_name + quality.                   *)
GetDiatonicChords(impl, root_name, scale_type) ==
    IF ~HasKey(SCALES, scale_type) \/ ~HasKey(DiatonicQualitiesOf(impl), scale_type)
    THEN Raised("ValueError")
    ELSE IF ~HasKey(PITCH_MAP, Upper(root_name))
    THEN Raised("KeyError")
    ELSE LET root_val == Lookup(PITCH_MAP, Upper(root_name))
             intervals == Lookup(SCALES, scale_type)
             qualities == Lookup(DiatonicQualitiesOf(impl), scale_type)
         IN  Returned([i \in 1..7 |->
                 NOTE_NAMES[((root_val + intervals[i]) % 12) + 1] \o qualities[i]])

(* sorted(list(set(...))): the members of a set of integers in ascending    *)
(* order.                                                                   *)
RECURSIVE SortedList(_)
SortedList(S) ==
    IF S = {} THEN <<>>
    ELSE LET least == CHOOSE x \in S : \A y \in S : x <= y
         IN  <<least>> \o SortedList(S \ {least})

(* The pitches the two loops of get_scale_notes visit.                      *)
ScalePitches(root_midi, intervals, min_octave, max_octave) ==
    {root_midi + (octave * 12) + intervals[k] :
        octave \in min_octave..max_octave, k \in 1..Len(intervals)}

(* get_scale_notes of random_melody_generator.py and                        *)
(* polyrhythm_melody_generator.py: only pitches with 0 <= pitch <= 127 are  *)
(* appended.                                                                *)
MelodyScaleNotes(root_note_name, scale_type, min_octave, max_octave) ==
    IF ~HasKey(MELODY_SCALES, scale_type) THEN Raised("ValueError")
    ELSE IF ~HasKey(PITCH_MAP, Upper(root_note_name)) THEN Raised("KeyError")
    ELSE Returned(SortedList(
             {pitch \in ScalePitches(Lookup(PITCH_MAP, Upper(root_note_name)),
                                     Lookup(MELODY_SCALES, scale_type),
                                     min_octave, max_octave) :
                  0 <= pitch /\ pitch <= 127}))

(* get_scale_notes of generative_music_creator.py: both lookups are plain   *)
(* dict subscripts and every pitch is appended.                             *)
GenerativeScaleNotes(root_note_name, scale_type, min_octave, max_octave) ==
    IF ~HasKey(PITCH_MAP, Upper(root_note_name)) THEN Raised("KeyError")
    ELSE IF ~HasKey(GENERATIVE_SCALES, scale_type) THEN Raised("KeyError")
    ELSE Returned(SortedList(
             ScalePitches(Lookup(PITCH_MAP, Upper(root_note_name)),
                          Lookup(GENERATIVE_SCALES, scale_type),
                          min_octave, max_octave)))

GetScaleNotes(impl, root_note_name, scale_type, min_octave, max_octave) ==
    IF impl = "generative"
    THEN GenerativeScaleNotes(root_note_name, scale_type, min_octave, max_octave)
    ELSE MelodyScaleNotes(root_note_name, scale_type, min_octave, max_octave)

(* Onsets and cycle lengths are beats in units of 1/OnsetDen: round(x, 5)   *)
(* gives a multiple of that unit.                                           *)
OnsetDen == 10 ^ 5

(* Mutant of Round5: the value is cut off after five places.                *)
Round5Truncated(num, den) == {num \div den}

(* round(num / den, 5) in units of 1/OnsetDen, for num >= 0: the nearest    *)
(* multiple.  The argument is the float product i * (cycle / num_hits); a   *)
(* value exactly halfway between two multiples is no float, the product     *)
(* lies a rounding error to one side of it, and which side depends on the   *)
(* factors: the result is either neighbour.                                 *)
Round5(num, den) ==
    LET q == num \div den
        r == num % den
    IN  IF 2 * r < den THEN {q}
        ELSE IF 2 * r > den THEN {q + 1}
        ELSE {q, q + 1}

(* The (num_hits, i) of the passes `for i in range(num_hits)` of a list of  *)
(* hit counts, in the order of the loops; a hit count <= 0 has none.        *)
RECURSIVE HitPairs(_)
HitPairs(rhythms) ==
    IF rhythms = <<>> THEN <<>>
    ELSE (IF Head(rhythms) <= 0 THEN <<>>
          ELSE [k \in 1..Head(rhythms) |-> <<Head(rhythms), k - 1>>])
         \o HitPairs(Tail(rhythms))

(* The sets `onsets` can be after the passes `pairs`.                       *)
RECURSIVE OnsetSets(_, _)
OnsetSets(pairs, cycle) ==
    IF pairs = <<>> THEN {{}}
    ELSE {rest \cup {onset} :
             rest \in OnsetSets(Tail(pairs), cycle),
             onset \in Round5(Head(pairs)[2] * cycle, Head(pairs)[1])}

(* generate_polyrhythm_onsets: the harmony version takes a list and skips   *)
(* hit counts <= 0; the melody version takes two hit counts and divides by  *)
(* each, so a hit count of 0 raises ZeroDivisionError.                      *)
GeneratePolyrhythmOnsets(impl, rhythms, cycle) ==
    IF impl = "melody" /\ \E k \in 1..Len(rhythms) : rhythms[k] = 0
    THEN {Raised("ZeroDivisionError")}
    ELSE {Returned(SortedList(onsets)) : onsets \in OnsetSets(HitPairs(rhythms), cycle)}

----------------------------------------------------------------------------
(* The helpers as a state machine: a call is made, then it returns or       *)
(* raises.                                                                  *)

HelperRootChoices ==
    {<<"C">>, <<"G", "#">>, <<"B">>, <<"B", "b">>, <<"E", "b">>, <<"c">>, <<"H">>}

ScaleTypeChoices ==
    Keys(SCALES) \cup Keys(MELODY_SCALES) \cup Keys(GENERATIVE_SCALES) \cup {"dorian"}

OctaveChoices == {-1, 0, 9, 10}

CycleChoices == {1, 3, 11, OnsetDen, 4 * OnsetDen}

RhythmChoices ==
    {<<a>> : a \in 0..MaxHits} \cup {<<a, b>> : a, b \in 0..MaxHits}

(* Roots of get_diatonic_chords: all keys of PITCH_MAP, a lower-case name   *)
(* and a name that is none.                                                 *)
DiatonicRootChoices == Keys(PITCH_MAP) \cup {<<"c">>, <<"H">>}

DiatonicCalls ==
    [fn : {"get_diatonic_chords"}, impl : {"modular", "progression"},
     root_name : DiatonicRootChoices, scale_type : ScaleTypeChoices]

ScaleCalls ==
    [fn : {"get_scale_notes"},
     impl : {"random_melody", "polyrhythm_melody", "generative"},
     root_note_name : HelperRootChoices, scale_type : ScaleTypeChoices,
     min_octave : OctaveChoices, max_octave : OctaveChoices]

OnsetCalls ==
    {c \in [fn : {"generate_polyrhythm_onsets"}, impl : {"harmony", "melody"},
            rhythms : RhythmChoices, cycle_duration_beats : CycleChoices] :
        c.impl = "melody" => Len(c.rhythms) = 2}

Pending == [status |-> "pending", value |-> <<>>, exception |-> "none"]

InitHelper ==
    /\ TimelineIdle
    /\ ChordIdle
    /\ EntityIdle
    /\ LoopIdle
    /\ call \in DiatonicCalls \cup ScaleCalls \cup OnsetCalls
    /\ result = Pending

CallGetDiatonicChords ==
    /\ call.fn = "get_diatonic_chords"
    /\ result = Pending
    /\ result' = GetDiatonicChords(call.impl, call.root_name, call.scale_type)
    /\ UNCHANGED <<timelineVars, chordVars, entity, call, loop>>

CallGetScaleNotes ==
    /\ call.fn = "get_scale_notes"
    /\ result = Pending
    /\ result' = GetScaleNotes(call.impl, call.root_note_name, call.scale_type,
                               call.min_octave, call.max_octave)
    /\ UNCHANGED <<timelineVars, chordVars, entity, call, loop>>

CallGeneratePolyrhythmOnsets ==
    /\ call.fn = "generate_polyrhythm_onsets"
    /\ result = Pending
    /\ result' \in GeneratePolyrhythmOnsets(call.impl, call.rhythms,
                                           call.cycle_duration_beats)
    /\ UNCHANGED <<timelineVars, chordVars, entity, call, loop>>

NextHelper ==
    \/ CallGetDiatonicChords
    \/ CallGetScaleNotes
    \/ CallGeneratePolyrhythmOnsets

SpecHelper == InitHelper /\ [][NextHelper]_vars

----------------------------------------------------------------------------
(* The entities on their own: one constructor call, then the setters of     *)
(* the object it made.  `call` holds the last call and its arguments.       *)

ByteArgs == {-1, 0, 127, 128}

BeatArgs == {-1, 0, OneBeat}

ChannelArgs == {-1, 0, 15, 16}

PanArgs == {-1, DefaultPan, 128}

VolumeArgs == {-1, DefaultVolume, 128}

TempoArgs == {-60, 0, 1, DefaultTempo}

TimeSignatureArgs == {<<4, 4>>, <<0, 4>>, <<3, 4, 4>>}

InstrumentNameArgs == {None, "", "Pad"}

(* Steps that stay inside the range, leave it at either end, and come back  *)
(* from the end.                                                            *)
SemitoneArgs == {-128, -60, 60, 128}

(* The notes a Chord is given: the ends and the middle of the pitch range,  *)
(* from beat 0 or beat 1.                                                   *)
ChordNoteArgs ==
    {Note(pitch, start_time, OneBeat, DefaultVelocity) :
        pitch \in {0, 60, 127}, start_time \in {0, OneBeat}}

(* Constructor lists: none, one note, two notes out of pitch order, and a   *)
(* list that holds an object that is no Note.                               *)
ChordNoteLists ==
    {<<>>, <<Junk>>}
        \cup {<<n>> : n \in ChordNoteArgs}
        \cup {<<Note(127, OneBeat, OneBeat, DefaultVelocity), n>> :
                 n \in ChordNoteArgs \cup {Junk}}

(* add_pitches lists: out of pitch order, and one whose second pitch the    *)
(* Note constructor refuses.                                                *)
PitchListArgs == {<<>>, <<127, 0>>, <<60, 128>>}

InitEntity ==
    /\ TimelineIdle
    /\ ChordIdle
    /\ EntityIdle
    /\ HelperIdle
    /\ LoopIdle

NoCallYet == call = [fn |-> "none"]

(* Note(pitch, start_time, duration, velocity)                              *)
ConstructNote ==
    /\ NoCallYet
    /\ \E pitch \in ByteArgs, start_time \in BeatArgs, duration \in BeatArgs,
          velocity \in ByteArgs :
        /\ call' = [fn |-> "Note",
                    args |-> <<pitch, start_time, duration, velocity>>]
        /\ IF NoteValid(pitch, start_time, duration, velocity)
           THEN /\ entity' = [kind |-> "note",
                              obj |-> Note(pitch, start_time, duration, velocity)]
                /\ raised' = "none"
           ELSE /\ entity' = entity
                /\ raised' = "ValueError"
    /\ UNCHANGED <<composition, added, exports, chordVars, result, loop>>

(* Rest(start_time, duration)                                               *)
ConstructRest ==
    /\ NoCallYet
    /\ \E start_time \in BeatArgs, duration \in BeatArgs :
        /\ call' = [fn |-> "Rest", args |-> <<start_time, duration>>]
        /\ IF RestValid(start_time, duration)
           THEN /\ entity' = [kind |-> "rest", obj |-> Rest(start_time, duration)]
                /\ raised' = "none"
           ELSE /\ entity' = entity
                /\ raised' = "ValueError"
    /\ UNCHANGED <<composition, added, exports, chordVars, result, loop>>

(* Track(name, instrument_program, channel, pan, volume)                    *)
ConstructTrack ==
    /\ NoCallYet
    /\ \E instrument_program \in ByteArgs, channel \in ChannelArgs,
          pan \in PanArgs, volume \in VolumeArgs :
        /\ call' = [fn |-> "Track",
                    args |-> <<TrackNames[1], instrument_program, channel,
                               pan, volume>>]
        /\ IF TrackValid(instrument_program, channel, pan, volume)
           THEN /\ entity' = [kind |-> "track",
                              obj |-> Track(TrackNames[1], instrument_program,
                                            channel, pan, volume)]
                /\ raised' = "none"
           ELSE /\ entity' = entity
                /\ raised' = "ValueError"
    /\ UNCHANGED <<composition, added, exports, chordVars, result, loop>>

(* Composition(title, tempo, time_signature)                                *)
ConstructComposition ==
    /\ NoCallYet
    /\ \E tempo \in TempoArgs, time_signature \in TimeSignatureArgs :
        /\ call' = [fn |-> "Composition",
                    args |-> <<NewComposition.title, tempo, time_signature>>]
        /\ IF CompositionValid(tempo, time_signature)
           THEN /\ entity' = [kind |-> "composition",
                              obj |-> Composition(NewComposition.title, tempo,
                                                  time_signature)]
                /\ raised' = "none"
           ELSE /\ entity' = entity
                /\ raised' = "ValueError"
    /\ UNCHANGED <<composition, added, exports, chordVars, result, loop>>

(* track.set_instrument(instrument_program, name)                           *)
SetInstrument ==
    /\ entity.kind = "track"
    /\ \E instrument_program \in ByteArgs, name \in InstrumentNameArgs :
        LET r == TrackSetInstrument(entity.obj, instrument_program, name)
        IN  /\ call' = [fn |-> "set_instrument",
                        args |-> <<instrument_program, name>>]
            /\ entity' = [entity EXCEPT !.obj = r.obj]
            /\ raised' = r.raised
    /\ UNCHANGED <<composition, added, exports, chordVars, result, loop>>

(* composition.set_tempo(tempo)                                             *)
SetTempo ==
    /\ entity.kind = "composition"
    /\ \E tempo \in TempoArgs :
        LET r == CompositionSetTempo(entity.obj, tempo)
        IN  /\ call' = [fn |-> "set_tempo", args |-> <<tempo>>]
            /\ entity' = [entity EXCEPT !.obj = r.obj]
            /\ raised' = r.raised
    /\ UNCHANGED <<composition, added, exports, chordVars, result, loop>>

(* note.transpose(semitones)                                                *)
NoteTransposeCall ==
    /\ entity.kind = "note"
    /\ \E semitones \in SemitoneArgs :
        /\ call' = [fn |-> "Note.transpose", args |-> <<semitones>>]
        /\ entity' = [entity EXCEPT !.obj = NoteTranspose(@, semitones)]
        /\ raised' = "none"
    /\ UNCHANGED <<composition, added, exports, chordVars, result, loop>>

(* Chord(notes)                                                             *)
ConstructChord ==
    /\ NoCallYet
    /\ \E notes \in ChordNoteLists :
        /\ call' = [fn |-> "Chord", args |-> <<notes>>]
        /\ IF ChordInitRaises(notes)
           THEN /\ entity' = entity
                /\ raised' = "ValueError"
           ELSE /\ entity' = [kind |-> "chord", obj |-> Chord(notes)]
                /\ raised' = "none"
    /\ UNCHANGED <<composition, added, exports, chordVars, result, loop>>

(* chord.add_note(note)                                                     *)
ChordAddNoteCall ==
    /\ entity.kind = "chord"
    /\ Len(entity.obj.notes) < MaxChordNotes
    /\ \E note \in ChordNoteArgs \cup {Junk} :
        LET r == ChordAddNote(entity.obj, note)
        IN  /\ call' = [fn |-> "add_note", args |-> <<note>>]
            /\ entity' = [entity EXCEPT !.obj = r.obj]
            /\ raised' = r.raised
    /\ UNCHANGED <<composition, added, exports, chordVars, result, loop>>

(* chord.add_pitches(pitches, start_time, duration)                         *)
ChordAddPitchesCall ==
    /\ entity.kind = "chord"
    /\ \E pitch_list \in PitchListArgs, start_time \in {0, OneBeat} :
        LET r == ChordAddPitches(entity.obj, pitch_list, start_time, OneBeat,
                                 DefaultVelocity)
        IN  /\ Len(entity.obj.notes) + Len(pitch_list) <= MaxChordNotes
            /\ call' = [fn |-> "add_pitches",
                        args |-> <<pitch_list, start_time, OneBeat>>]
            /\ entity' = [entity EXCEPT !.obj = r.obj]
            /\ raised' = r.raised
    /\ UNCHANGED <<composition, added, exports, chordVars, result, loop>>

(* chord.transpose(semitones)                                               *)
ChordTransposeCall ==
    /\ entity.kind = "chord"
    /\ \E semitones \in SemitoneArgs :
        /\ call' = [fn |-> "Chord.transpose", args |-> <<semitones>>]
        /\ entity' = [entity EXCEPT !.obj = ChordTranspose(@, semitones)]
        /\ raised' = "none"
    /\ UNCHANGED <<composition, added, exports, chordVars, result, loop>>

NextEntity ==
    \/ ConstructNote
    \/ ConstructRest
    \/ ConstructTrack
    \/ ConstructComposition
    \/ SetInstrument
    \/ SetTempo
    \/ NoteTransposeCall
    \/ ConstructChord
    \/ ChordAddNoteCall
    \/ ChordAddPitchesCall
    \/ ChordTransposeCall

SpecEntity == InitEntity /\ [][NextEntity]_vars

----------------------------------------------------------------------------
(* The timeline with Chords that are changed while a Track holds them: a    *)
(* Track keeps a reference to each element, so add_note and add_pitches on  *)
(* a Chord of the track change the element in place, and no code of the     *)
(* Track runs.                                                              *)

(* Where the Chords of the Composition are: <<track, element>>.             *)
ChordsInTracks ==
    {<<t, i>> \in (1..Len(composition.tracks)) \X (1..MaxElems) :
        /\ i <= Len(composition.tracks[t].elements)
        /\ composition.tracks[t].elements[i].kind = "chord"}

(* A note below every note of ChordChoices that starts at beat 1, and an    *)
(* object that is no Note.                                                  *)
InPlaceNoteArgs == {Note(0, OneBeat, OneBeat, DefaultVelocity), Junk}

(* A pitch list that ends below every note of ChordChoices.                 *)
InPlacePitchLists == {<<127, 0>>}

(* chord.add_note(note) on a Chord of a track.                              *)
ChordAddNoteInTrack ==
    /\ \E c \in ChordsInTracks, note \in InPlaceNoteArgs :
        LET chord == composition.tracks[c[1]].elements[c[2]]
            r == ChordAddNote(chord, note)
        IN  /\ Len(chord.notes) < MaxChordNotes
            /\ composition' =
                   [composition EXCEPT !.tracks[c[1]].elements[c[2]] = r.obj]
            /\ raised' = r.raised
    /\ exports' = <<>>
    /\ UNCHANGED <<added, chordVars, entity, helperVars, loop>>

(* chord.add_pitches(pitches, start_time, duration) on a Chord of a track.  *)
ChordAddPitchesInTrack ==
    /\ \E c \in ChordsInTracks, pitch_list \in InPlacePitchLists,
          start_time \in {OneBeat} :
        LET chord == composition.tracks[c[1]].elements[c[2]]
            r == ChordAddPitches(chord, pitch_list, start_time, OneBeat,
                                 DefaultVelocity)
        IN  /\ Len(chord.notes) + Len(pitch_list) <= MaxChordNotes
            /\ composition' =
                   [composition EXCEPT !.tracks[c[1]].elements[c[2]] = r.obj]
            /\ raised' = r.raised
    /\ exports' = <<>>
    /\ UNCHANGED <<added, chordVars, entity, helperVars, loop>>

NextInPlace ==
    \/ AddTrack
    \/ AddElement
    \/ AddNotes
    \/ Export
    \/ ChordAddNoteInTrack
    \/ ChordAddPitchesInTrack

SpecInPlace == Init /\ [][NextInPlace]_vars

----------------------------------------------------------------------------
(* polyrhythm_harmony_generator.py: the main generation loop.  Its times    *)
(* are beats in units of 1/OnsetDen, the unit of the onsets.  The module's  *)
(* PITCH_MAP has the entries of the PITCH_MAP above.                        *)

CHORD_INTERVALS ==
    << <<"maj", <<0, 4, 7>>>>,
       <<"m", <<0, 3, 7>>>>,
       <<"dim", <<0, 3, 6>>>>,
       <<"aug", <<0, 4, 8>>>>,
       <<"sus4", <<0, 5, 7>>>>,
       <<"sus2", <<0, 2, 7>>>>,
       <<"7", <<0, 4, 7, 10>>>>,
       <<"maj7", <<0, 4, 7, 11>>>>,
       <<"m7", <<0, 3, 7, 10>>>>,
       <<"m7b5", <<0, 3, 6, 10>>>>,
       <<"dim7", <<0, 3, 6, 9>>>>,
       <<"9", <<0, 4, 7, 10, 14>>>>,
       <<"m9", <<0, 3, 7, 10, 14>>>>,
       <<"maj9", <<0, 4, 7, 11, 14>>>>,
       <<"7b9", <<0, 4, 7, 10, 13>>>>,
       <<"7#9", <<0, 4, 7, 10, 15>>>>,
       <<"11", <<0, 4, 7, 10, 14, 17>>>>,
       <<"#11", <<0, 4, 7, 11, 14, 18>>>>,
       <<"m11", <<0, 3, 7, 10, 14, 17>>>>,
       <<"13", <<0, 4, 7, 10, 14, 21>>>>,
       <<"m13", <<0, 3, 7, 10, 14, 21>>>>,
       <<"add9", <<0, 4, 7, 14>>>>,
       <<"m(add9)", <<0, 3, 7, 14>>>> >>

(* The inversion loop: `inversion` passes, each one moving the first pitch  *)
(* an octave up to the end of a list that is not empty.                     *)
RECURSIVE Inverted(_, _)
Inverted(ps, inversion) ==
    IF inversion <= 0 \/ ps = <<>> THEN ps
    ELSE Inverted(Rotate(ps), inversion - 1)

(* get_pitches_for_chord(root_name, quality, base_octave, inversion)        *)
GetPitchesForChord(root_name, quality, base_octave, inversion) ==
    IF ~HasKey(PITCH_MAP, root_name) \/ ~HasKey(CHORD_INTERVALS, quality)
    THEN Raised("ValueError")
    ELSE LET root_pitch == Lookup(PITCH_MAP, root_name) + (base_octave * 12)
             intervals == Lookup(CHORD_INTERVALS, quality)
         IN  Returned(Inverted([i \in 1..Len(intervals) |->
                                   root_pitch + intervals[i]], inversion))

(* get_pitches_for_chord on an entry of the progression.                    *)
PitchesOf(entry) ==
    GetPitchesForChord(entry.chord, entry.quality, entry.octave, entry.inversion)

(* The block Chord of the pad track: Note(p, start, duration_beats, 80) for *)
(* every pitch.                                                             *)
PadVelocity == 80

PadChord(ps, start_time, duration_beats) ==
    Chord([i \in 1..Len(ps) |-> Note(ps[i], start_time, duration_beats,
                                     PadVelocity)])

(* The Note constructor refuses a note of the block Chord.                  *)
PadChordRaises(ps, start_time, duration_beats) ==
    \E i \in 1..Len(ps) :
        ~NoteValid(ps[i], start_time, duration_beats, PadVelocity)

(* CONFIG: the cycle of 4 beats, the melody note of a quarter beat, and the *)
(* two ends of random.randint(90, 115).                                     *)
CycleBeats == 4 * OnsetDen
MelodyNoteDuration == OnsetDen \div 4
MelodyVelocities == {90, 115}

MaxProgression == 3   \* chords of CONFIG['CHORD_PROGRESSION']

(* Entries of a progression: a chord as long as the cycle, one of a single  *)
(* beat, one of two cycles, and one whose root is no key of PITCH_MAP.      *)
ProgressionEntries ==
    {[chord |-> <<"C">>, quality |-> "maj", octave |-> 4, inversion |-> 0,
      duration_beats |-> 4 * OnsetDen],
     [chord |-> <<"G">>, quality |-> "7", octave |-> 4, inversion |-> 1,
      duration_beats |-> OnsetDen],
     [chord |-> <<"A">>, quality |-> "m", octave |-> 5, inversion |-> 0,
      duration_beats |-> 8 * OnsetDen],
     [chord |-> <<"H">>, quality |-> "maj", octave |-> 4, inversion |-> 0,
      duration_beats |-> 4 * OnsetDen]}

(* Progressions whose first chord get_pitches_for_chord accepts: the call   *)
(* before the loop is outside every try.                                    *)
ProgressionChoices ==
    {pr \in UNION {[1..n -> ProgressionEntries] : n \in 1..MaxProgression} :
        PitchesOf(pr[1]).status = "returned"}

HarmonyRhythms == {<<1>>, <<2>>, <<2, 3>>}

TotalBeatsChoices == {6 * OnsetDen, 8 * OnsetDen}

NoNote == [kind |-> "none"]

(* The locals of main after lines 222-254: the onsets of one cycle, the     *)
(* first chord loaded and its block Chord on the pad track.  melody_last is *)
(* the Note the melody track got last, the track being filled in time       *)
(* order.                                                                   *)
HarmonyStart(progression, onsets, total_beats) ==
    [pc |-> "while",
     cycle_beats |-> CycleBeats,
     rhythmic_onsets_one_cycle |-> onsets,
     total_beats |-> total_beats,
     progression |-> progression,
     generated_note_count |-> 0,
     current_cycle |-> 0,
     onset_index |-> 1,
     progression_index |-> 0,
     current_chord_start_time |-> 0,
     current_chord_end_time |-> progression[1].duration_beats,
     current_pitches |-> PitchesOf(progression[1]).value,
     pad_elements |->
         TrackAddElement(<<>>, PadChord(PitchesOf(progression[1]).value, 0,
                                        progression[1].duration_beats)).elements,
     melody_last |-> NoNote]

InitHarmony ==
    /\ TimelineIdle
    /\ ChordIdle
    /\ EntityIdle
    /\ HelperIdle
    /\ \E progression \in ProgressionChoices, rhythms \in HarmonyRhythms,
          total_beats \in TotalBeatsChoices :
        \E onsets \in GeneratePolyrhythmOnsets("harmony", rhythms, CycleBeats) :
            loop = HarmonyStart(progression, onsets.value, total_beats)

(* while (current_cycle * cycle_beats) < total_beats: the test, and the     *)
(* start of the for loop of the cycle.                                      *)
HarmonyWhile ==
    /\ loop.pc = "while"
    /\ loop' = IF loop.current_cycle * loop.cycle_beats < loop.total_beats
               THEN [loop EXCEPT !.pc = "for", !.onset_index = 1]
               ELSE [loop EXCEPT !.pc = "done"]
    /\ UNCHANGED <<timelineVars, chordVars, entity, helperVars>>

(* Lines 268-295: `if note_start_time >= current_chord_end_time` moves the  *)
(* tracker one chord on, once.  pc is "cycle_end" after a break and "for"   *)
(* where the pass goes on.  progression is 0-based in the code: the entry   *)
(* of index i is progression[i + 1] here.                                   *)
HarmonyChordChange(l, note_start_time) ==
    IF note_start_time < l.current_chord_end_time
    THEN [l EXCEPT !.pc = "for"]
    ELSE IF l.progression_index + 1 >= Len(l.progression)
    THEN [l EXCEPT !.pc = "cycle_end",
                   !.progression_index = l.progression_index + 1]
    ELSE LET entry == l.progression[l.progression_index + 2]
             loaded == [l EXCEPT
                 !.progression_index = l.progression_index + 1,
                 !.current_chord_start_time = l.current_chord_end_time,
                 !.current_chord_end_time =
                     l.current_chord_end_time + entry.duration_beats]
             ps == PitchesOf(entry)
         IN  IF ps.status = "raised"
             THEN [loaded EXCEPT !.pc = "cycle_end"]
             ELSE IF PadChordRaises(ps.value, loaded.current_chord_start_time,
                                    entry.duration_beats)
             THEN [loaded EXCEPT !.pc = "cycle_end",
                                 !.current_pitches = ps.value]
             ELSE [loaded EXCEPT
                      !.pc = "for",
                      !.current_pitches = ps.value,
                      !.pad_elements = TrackAddElement(@,
                          PadChord(ps.value, loaded.current_chord_start_time,
                                   entry.duration_beats)).elements]

(* One pass of `for onset_in_cycle in rhythmic_onsets_one_cycle`.           *)
HarmonyOnset ==
    /\ loop.pc = "for"
    /\ loop.onset_index <= Len(loop.rhythmic_onsets_one_cycle)
    /\ LET measure_start_time == loop.current_cycle * loop.cycle_beats
           note_start_time ==
               measure_start_time
                   + loop.rhythmic_onsets_one_cycle[loop.onset_index]
           changed == HarmonyChordChange(loop, note_start_time)
           next == [changed EXCEPT !.onset_index = @ + 1]
       IN  IF note_start_time >= loop.total_beats
           THEN loop' = [loop EXCEPT !.pc = "cycle_end"]
           ELSE IF changed.pc = "cycle_end"
           THEN loop' = changed
           ELSE IF changed.current_pitches = <<>>
           THEN loop' = next
           ELSE \E i \in 1..Len(changed.current_pitches),
                   velocity \in MelodyVelocities :
                    loop' = [next EXCEPT
                        !.melody_last = Note(changed.current_pitches[i],
                                             note_start_time,
                                             MelodyNoteDuration, velocity),
                        !.generated_note_count = @ + 1]
    /\ UNCHANGED <<timelineVars, chordVars, entity, helperVars>>

(* The for loop is left, by a break or at the end of the list:              *)
(* current_cycle += 1.                                                      *)
HarmonyCycleEnd ==
    /\ \/ loop.pc = "cycle_end"
       \/ /\ loop.pc = "for"
          /\ loop.onset_index > Len(loop.rhythmic_onsets_one_cycle)
    /\ loop' = [loop EXCEPT !.pc = "while", !.current_cycle = @ + 1]
    /\ UNCHANGED <<timelineVars, chordVars, entity, helperVars>>

NextHarmony ==
    \/ HarmonyWhile
    \/ HarmonyOnset
    \/ HarmonyCycleEnd

SpecHarmony == InitHarmony /\ [][NextHarmony]_vars

----------------------------------------------------------------------------
(* The arpeggio loops of chord_progression_generator.py ("progression"),    *)
(* modular_chord_generator.py ("modular") and random_chord_generator.py     *)
(* ("random").  Their times are beats in units of 1/ArpDen, and every       *)
(* input is a multiple of 20 units, so that note_duration * 0.95 is a       *)
(* whole number of units.                                                   *)

ArpDen == 320

(* Mutant of StepDuration: the step is taken whole.                         *)
StepDurationWhole(arp_time, note_duration, duration) == note_duration

(* if arp_time + note_duration > duration:                                  *)
(*     note_duration = duration - arp_time                                  *)
StepDuration(arp_time, note_duration, duration) ==
    IF arp_time + note_duration > duration
    THEN duration - arp_time
    ELSE note_duration

(* pitch_index of the progression version, from the place j in the pattern. *)
ProgressionPitchIndex(j, pitches_len) ==
    LET wide == pitches_len + (IF pitches_len - 2 > 0 THEN pitches_len - 2 ELSE 0)
        pitch_index == j % wide
    IN  IF pitch_index >= pitches_len
        THEN pitches_len - 2 - (pitch_index - pitches_len)
        ELSE pitch_index

(* pitch_index of the modular version, from the count of notes so far.      *)
ModularPitchIndex(note_index, pitches_len) ==
    LET max_idx == pitches_len - 1
        total_cycle_len == IF max_idx * 2 > 1 THEN max_idx * 2 ELSE 1
        pos_in_cycle == note_index % total_cycle_len
    IN  IF pos_in_cycle > max_idx
        THEN max_idx - (pos_in_cycle - max_idx)
        ELSE pos_in_cycle

(* pitches[note_index % len(pitches)] of the random version.                *)
RandomPitchIndex(note_index, pitches_len) == note_index % pitches_len

PitchIndexOf(impl, index, pitches_len) ==
    IF impl = "progression" THEN ProgressionPitchIndex(index, pitches_len)
    ELSE IF impl = "modular" THEN ModularPitchIndex(index, pitches_len)
    ELSE RandomPitchIndex(index, pitches_len)

(* list[i] of Python: a negative i counts from the end, and an i outside    *)
(* [-len, len) raises IndexError.                                           *)
IndexRaises(list, i) == i >= Len(list) \/ i < 0 - Len(list)

Indexed(list, i) == IF i >= 0 THEN list[i + 1] ELSE list[Len(list) + i + 1]

(* The duration the Note is given: the modular version leaves a gap.        *)
ArpNoteDuration(impl, note_duration) ==
    IF impl = "modular" THEN (note_duration * 19) \div 20 ELSE note_duration

(* The two ends of random.randint(80, 100) and random.randint(75, 95).      *)
ArpVelocities(impl) == IF impl = "random" THEN {75, 95} ELSE {80, 100}

ArpImpls == {"progression", "modular", "random"}

(* Chord durations of half a beat, one beat and a beat and a quarter.       *)
ArpDurations == {ArpDen \div 2, ArpDen, (5 * ArpDen) \div 4}

(* Patterns that divide the durations and patterns that do not.             *)
ArpPatterns ==
    {<<ArpDen \div 4>>,
     <<(3 * ArpDen) \div 8>>,
     <<ArpDen \div 2, ArpDen \div 4>>,
     <<ArpDen \div 4, ArpDen \div 4, ArpDen \div 4, ArpDen \div 4,
       ArpDen \div 4>>}

ArpPitchLists == {<<60>>, <<60, 64>>, <<60, 64, 67>>, <<60, 64, 67, 70>>}

(* The locals before `while arp_time < duration`.  index is j of the        *)
(* progression version and note_index of the other two; last is the Note    *)
(* the track got last and pitch_index the index it was read at.             *)
ArpeggioStart(impl, current_time, duration, arp_pattern, pitch_list) ==
    [pc |-> "while",
     impl |-> impl,
     current_time |-> current_time,
     duration |-> duration,
     arp_pattern |-> arp_pattern,
     pitches |-> pitch_list,
     arp_time |-> 0,
     index |-> 0,
     pitch_index |-> 0,
     notes_added |-> 0,
     last |-> NoNote]

InitArpeggio ==
    /\ TimelineIdle
    /\ ChordIdle
    /\ EntityIdle
    /\ HelperIdle
    /\ \E impl \in ArpImpls, current_time \in {0, ArpDen},
          duration \in ArpDurations, arp_pattern \in ArpPatterns,
          pitch_list \in ArpPitchLists :
        loop = ArpeggioStart(impl, current_time, duration, arp_pattern,
                             pitch_list)

(* The part of a pass all three versions share, from the truncation to      *)
(* arp_time += note_duration: the locals after it, or the pc `left` where   *)
(* the pass breaks.                                                         *)
ArpeggioNote(l, left, velocity) ==
    LET note_duration ==
            StepDuration(l.arp_time,
                         l.arp_pattern[(l.index % Len(l.arp_pattern)) + 1],
                         l.duration)
        pitch_index == PitchIndexOf(l.impl, l.index, Len(l.pitches))
    IN  IF note_duration <= 0
        THEN [l EXCEPT !.pc = left]
        ELSE IF IndexRaises(l.pitches, pitch_index)
        THEN [l EXCEPT !.pc = "IndexError", !.pitch_index = pitch_index]
        ELSE [l EXCEPT
                 !.pitch_index = pitch_index,
                 !.last = Note(Indexed(l.pitches, pitch_index),
                               l.current_time + l.arp_time,
                               ArpNoteDuration(l.impl, note_duration),
                               velocity),
                 !.notes_added = @ + 1,
                 !.arp_time = @ + note_duration,
                 !.index = @ + 1]

(* Progression version: `while arp_time < duration`, and the start of       *)
(* `for j, note_duration in enumerate(arp_pattern)`.                        *)
ArpeggioWhile ==
    /\ "arp_time" \in DOMAIN loop
    /\ loop.impl = "progression"
    /\ loop.pc = "while"
    /\ loop' = IF loop.arp_time < loop.duration
               THEN [loop EXCEPT !.pc = "for", !.index = 0]
               ELSE [loop EXCEPT !.pc = "done"]
    /\ UNCHANGED <<timelineVars, chordVars, entity, helperVars>>

(* Progression version: one pass of the for loop; a break and the end of    *)
(* the pattern lead back to the while test.                                 *)
ArpeggioFor ==
    /\ "arp_time" \in DOMAIN loop
    /\ loop.impl = "progression"
    /\ loop.pc = "for"
    /\ IF loop.index >= Len(loop.arp_pattern)
       THEN loop' = [loop EXCEPT !.pc = "while"]
       ELSE \E velocity \in ArpVelocities(loop.impl) :
                loop' = ArpeggioNote(loop, "while", velocity)
    /\ UNCHANGED <<timelineVars, chordVars, entity, helperVars>>

(* Modular and random version: the while test and one pass of the loop; a   *)
(* break leaves the loop.                                                   *)
ArpeggioPass ==
    /\ "arp_time" \in DOMAIN loop
    /\ loop.impl \in {"modular", "random"}
    /\ loop.pc = "while"
    /\ IF loop.arp_time < loop.duration
       THEN \E velocity \in ArpVelocities(loop.impl) :
                loop' = ArpeggioNote(loop, "done", velocity)
       ELSE loop' = [loop EXCEPT !.pc = "done"]
    /\ UNCHANGED <<timelineVars, chordVars, entity, helperVars>>

NextArpeggio ==
    \/ ArpeggioWhile
    \/ ArpeggioFor
    \/ ArpeggioPass

SpecArpeggio == InitArpeggio /\ [][NextArpeggio]_vars

(* The script runs on its own and nothing holds it up: a pass that can be   *)
(* taken is taken.                                                          *)
SpecArpeggioFair == SpecArpeggio /\ WF_vars(NextArpeggio)

----------------------------------------------------------------------------
(* Properties of the exporter's event stream.                               *)

Count(seq, x) == Cardinality({i \in 1..Len(seq) : seq[i] = x})

(* The export() calls on record that returned, and the tracks each of them  *)
(* was given: the record is dropped by every mutation, so these are the     *)
(* tracks as they are now.                                                  *)
ExportIds == {x \in 1..Len(exports) : exports[x].raised = "none"}
TrackIds == 1..Len(composition.tracks)

(* C1: for every track, export() emits the note events in ascending         *)
(* absolute tick order, and of two events with one tick a NoteOff comes     *)
(* before a NoteOn; two Notes of pitch 60, [start=0,dur=1] and              *)
(* [start=1,dur=1], give NoteOff(60) at tick(1) immediately before          *)
(* NoteOn(60) at tick(1).                                                   *)
C1_EventsInTickOrderOffFirst ==
    \A x \in ExportIds : \A t \in TrackIds :
        LET ev == exports[x].events[t]
        IN  /\ \A i, j \in 1..Len(ev) :
                i < j =>
                    /\ ev[i].tick <= ev[j].tick
                    /\ (ev[i].tick = ev[j].tick /\ ev[i].type = "note_on")
                           => ev[j].type = "note_on"
            /\ composition.tracks[t].elements =
                   <<Note(60, 0, OneBeat, DefaultVelocity),
                     Note(60, OneBeat, OneBeat, DefaultVelocity)>>
               => /\ [i \in 1..4 |-> <<ev[i].type, ev[i].note, ev[i].tick>>] =
                        << <<"note_on", 60, 0>>,
                           <<"note_off", 60, DefaultTicksPerBeat>>,
                           <<"note_on", 60, DefaultTicksPerBeat>>,
                           <<"note_off", 60, 2 * DefaultTicksPerBeat>> >>
                  /\ Len(ev) = 4

C1_Witness ==
    \E x \in ExportIds : \E t \in TrackIds :
        LET ev == exports[x].events[t]
        IN  /\ composition.tracks[t].elements =
                   <<Note(60, 0, OneBeat, DefaultVelocity),
                     Note(60, OneBeat, OneBeat, DefaultVelocity)>>
            /\ ev[2].type = "note_off" /\ ev[3].type = "note_on"
            /\ ev[2].tick = ev[3].tick

(* C3: in every track chunk each note message's delta time is its event's   *)
(* absolute tick minus the absolute tick of the previous note event of the  *)
(* same track, the first one's delta is its own absolute tick, and no       *)
(* delta is negative.                                                       *)
C3_DeltasAreTickDifferences ==
    \A x \in ExportIds : \A t \in TrackIds :
        LET ev == exports[x].events[t]
            chunk == exports[x].file.tracks[t + 1]
        IN  /\ Len(chunk) = Len(ev) + 5
            /\ \A i \in 1..Len(ev) :
                /\ chunk[4 + i].type = ev[i].type
                /\ chunk[4 + i].note = ev[i].note
                /\ chunk[4 + i].time >= 0
                /\ i = 1 => chunk[4 + i].time = ev[i].tick
                /\ i > 1 => chunk[4 + i].time = ev[i].tick - ev[i - 1].tick

(* Two tracks whose first event is not at tick 0, the first track ending    *)
(* at a later tick than the second one starts.                              *)
C3_Witness ==
    \E x \in ExportIds :
        /\ Len(composition.tracks) = 2
        /\ \A t \in TrackIds :
            /\ Len(exports[x].events[t]) >= 2
            /\ exports[x].events[t][1].tick > 0
            /\ exports[x].file.tracks[t + 1][5].time = exports[x].events[t][1].tick
            /\ exports[x].file.tracks[t + 1][6].time > 0

(* The notes of a track: <<i, 0>> for the standalone Note that is element   *)
(* i, <<i, k>> for the k-th note of the Chord that is element i.            *)
NoteSlots(track) ==
    UNION {IF track.elements[i].kind = "note" THEN {<<i, 0>>}
           ELSE IF track.elements[i].kind = "chord"
           THEN {<<i, k>> : k \in 1..Len(track.elements[i].notes)}
           ELSE {} : i \in 1..Len(track.elements)}

SlotNote(track, s) ==
    IF s[2] = 0 THEN track.elements[s[1]] ELSE track.elements[s[1]].notes[s[2]]

(* The start and end of a note in beats, from its own fields.               *)
OwnStart(track, s) == SlotNote(track, s).start_time
OwnEnd(track, s) == SlotNote(track, s).start_time + SlotNote(track, s).duration

(* The same, a note of a Chord taking both from the Chord's first note.     *)
FirstNoteStart(track, s) ==
    IF s[2] = 0 THEN OwnStart(track, s) ELSE OwnStart(track, <<s[1], 1>>)
FirstNoteEnd(track, s) ==
    IF s[2] = 0 THEN OwnEnd(track, s) ELSE OwnEnd(track, <<s[1], 1>>)

(* The stream `ev` holds, for every note of the track, exactly one NoteOn   *)
(* at the tick of its start and exactly one NoteOff at the tick of its      *)
(* end, and nothing else: notes that ask for equal events get one event     *)
(* each.  The timing is a note's "own" or, in a Chord, the "first" note's.  *)
StreamHoldsEachNote(ev, track, timing) ==
    LET slots == NoteSlots(track)
        start(s) == IF timing = "own" THEN OwnStart(track, s)
                    ELSE FirstNoteStart(track, s)
        end(s) == IF timing = "own" THEN OwnEnd(track, s)
                  ELSE FirstNoteEnd(track, s)
        on(s) == NoteOn(Tick(start(s), DefaultTicksPerBeat),
                        SlotNote(track, s), track.channel)
        off(s) == NoteOff(Tick(end(s), DefaultTicksPerBeat),
                          SlotNote(track, s), track.channel)
    IN  /\ Len(ev) = 2 * Cardinality(slots)
        /\ \A s \in slots :
            /\ Count(ev, on(s)) = Cardinality({r \in slots : on(r) = on(s)})
            /\ Count(ev, off(s)) = Cardinality({r \in slots : off(r) = off(s)})

(* C2, as claimed: every Note of a track, standalone or in a Chord, has     *)
(* exactly one NoteOn at tick(note.start_time) and exactly one NoteOff at   *)
(* tick(note.start_time + note.duration) in the track's stream, from that   *)
(* note's own start_time and duration.                                      *)
C2_EachNoteAtItsOwnTime ==
    \A x \in ExportIds : \A t \in TrackIds :
        StreamHoldsEachNote(exports[x].events[t], composition.tracks[t],
                            "own")

(* C2, amended: a standalone Note has exactly one NoteOn at                 *)
(* tick(start_time) and one NoteOff at tick(start_time + duration) from     *)
(* its own fields; every note of a Chord has them at tick(chord.start_time) *)
(* and tick(chord.start_time + chord.duration), the start and duration of   *)
(* the Chord's first (lowest) note.                                         *)
C2_ChordNotesAtFirstNoteTime ==
    \A x \in ExportIds : \A t \in TrackIds :
        StreamHoldsEachNote(exports[x].events[t], composition.tracks[t],
                            "first")

(* An exported track with a Chord whose second note has another start and   *)
(* duration than its first.                                                 *)
C2_Witness ==
    \E x \in ExportIds : \E t \in TrackIds :
        \E i \in 1..Len(composition.tracks[t].elements) :
            LET e == composition.tracks[t].elements[i]
            IN  /\ e.kind = "chord"
                /\ Len(e.notes) = 2
                /\ e.notes[2].start_time # e.notes[1].start_time
                /\ e.notes[2].duration # e.notes[1].duration
                /\ Len(exports[x].events[t]) >= 4

(* C5: when a track handed to export() holds a Chord with no notes, the     *)
(* export is rejected with an error; the empty Chord is never skipped       *)
(* while the rest of the track is written.                                  *)
C5_EmptyChordRejected ==
    \A x \in 1..Len(exports) :
        (\E t \in TrackIds : \E i \in 1..Len(composition.tracks[t].elements) :
            IsNone(composition.tracks[t].elements[i]))
        => /\ exports[x].raised # "none"
           /\ ~exports[x].written
           /\ exports[x].file.tracks = <<>>

(* An export() call on a track that holds an empty Chord and a Note.        *)
C5_Witness ==
    /\ exports # <<>>
    /\ \E t \in TrackIds :
        /\ \E i \in 1..Len(composition.tracks[t].elements) :
               IsNone(composition.tracks[t].elements[i])
        /\ \E i \in 1..Len(composition.tracks[t].elements) :
               composition.tracks[t].elements[i].kind = "note"

(* C6, as claimed: when writing the file fails with an I/O error, export()  *)
(* leaves with an error that carries the cause; it never returns normally   *)
(* after a failed write.                                                    *)
C6_SaveFailurePropagates ==
    \A x \in 1..Len(exports) :
        exports[x].save_failed => exports[x].raised # "none"

IsTruncated(k, beats) ==
    /\ k * BeatDen <= beats * DefaultTicksPerBeat
    /\ beats * DefaultTicksPerBeat < (k + 1) * BeatDen

IsNearest(k, beats) ==
    /\ 2 * (k * BeatDen - beats * DefaultTicksPerBeat) <= BeatDen
    /\ 2 * (beats * DefaultTicksPerBeat - k * BeatDen) <= BeatDen

(* Every Note and every Chord with notes has, for each of its pitches, a    *)
(* NoteOn whose tick is Rule-related to its start and a NoteOff whose tick  *)
(* is Rule-related to its end, and the stream has no event whose tick is    *)
(* not Rule-related to the start (NoteOn) or end (NoteOff) of an element    *)
(* with that pitch.                                                         *)
TicksFollow(ev, track, rule) ==
    LET Rule(k, beats) == IF rule = "nearest" THEN IsNearest(k, beats)
                          ELSE IsTruncated(k, beats)
        timed == {i \in 1..Len(track.elements) :
                     /\ track.elements[i].kind \in {"note", "chord"}
                     /\ ~IsNone(track.elements[i])}
        beat(i, type) ==
            IF type = "note_on" THEN StartTime(track.elements[i])
            ELSE StartTime(track.elements[i]) + Duration(track.elements[i])
        sounds(i, p) ==
            IF track.elements[i].kind = "note" THEN track.elements[i].pitch = p
            ELSE \E k \in 1..Len(track.elements[i].notes) :
                     track.elements[i].notes[k].pitch = p
        pitchesOf(i) ==
            IF track.elements[i].kind = "note" THEN {track.elements[i].pitch}
            ELSE {track.elements[i].notes[k].pitch :
                     k \in 1..Len(track.elements[i].notes)}
    IN  /\ \A i \in timed : \A p \in pitchesOf(i) :
               \A type \in {"note_on", "note_off"} :
                   \E n \in 1..Len(ev) :
                       /\ ev[n].type = type /\ ev[n].note = p
                       /\ Rule(ev[n].tick, beat(i, type))
        /\ \A n \in 1..Len(ev) :
               \E i \in timed :
                   /\ sounds(i, ev[n].note)
                   /\ Rule(ev[n].tick, beat(i, ev[n].type))

(* C8, as claimed: the exporter converts every beat value to ticks as       *)
(* round(beats * ticksPerBeat), to the nearest tick, for every start and    *)
(* end time of Notes and Chords.                                            *)
C8_TicksRoundedToNearest ==
    \A x \in ExportIds : \A t \in TrackIds :
        TicksFollow(exports[x].events[t], composition.tracks[t], "nearest")

(* C8, amended: the exporter converts every beat value to ticks as          *)
(* int(beats * ticksPerBeat), the product cut toward zero (its floor, beat  *)
(* values being >= 0), for every start and end time of Notes and Chords.    *)
C8_TicksTruncated ==
    \A x \in ExportIds : \A t \in TrackIds :
        TicksFollow(exports[x].events[t], composition.tracks[t], "truncated")

(* An exported note that ends at 2/1024 beat, 0.9375 tick: its NoteOff is   *)
(* at tick 0.                                                               *)
C8_Witness ==
    \E x \in ExportIds : \E t \in TrackIds :
        /\ \E i \in 1..Len(composition.tracks[t].elements) :
               composition.tracks[t].elements[i] = Note(64, 1, 1, DefaultVelocity)
        /\ \E n \in 1..Len(exports[x].events[t]) :
               /\ exports[x].events[t][n].type = "note_off"
               /\ exports[x].events[t][n].note = 64
               /\ exports[x].events[t][n].tick = 0

----------------------------------------------------------------------------
(* Properties of Track.elements.                                            *)

BagOfSeq(seq) == [x \in {seq[i] : i \in 1..Len(seq)} |-> Count(seq, x)]

(* C4: after any sequence of add_element and add_notes calls with Notes,    *)
(* Rests and non-empty Chords, Track.elements holds exactly the elements    *)
(* added so far and is sorted ascending by start_time.                      *)
C4_ElementsSortedAndComplete ==
    \A t \in TrackIds :
        LET el == composition.tracks[t].elements
        IN  (\A e \in BagToSet(added[t]) : ~IsNone(e))
            => /\ BagOfSeq(el) = added[t]
               /\ \A i, j \in 1..Len(el) :
                      i < j => StartTime(el[i]) <= StartTime(el[j])

(* A track that add_notes gave a later note before an earlier one.          *)
C4_Witness ==
    \E t \in TrackIds :
        /\ raised = "none"
        /\ composition.tracks[t].elements =
               <<Note(64, 1, 1, DefaultVelocity),
                 Note(60, OneBeat, OneBeat, DefaultVelocity)>>

(* C17: the file export() builds for a Composition with N tracks has        *)
(* exactly N + 1 track chunks: first the meta chunk (the title as track     *)
(* name, the tempo, the time signature, all at time 0), then one chunk per  *)
(* Composition track in the Composition's track order; with N = 0 it holds  *)
(* only the meta chunk.                                                     *)
C17_MetaChunkThenOneChunkPerTrack ==
    \A x \in ExportIds :
        LET chunks == exports[x].file.tracks
        IN  /\ Len(chunks) = Len(composition.tracks) + 1
            /\ Len(chunks[1]) = 3
            /\ chunks[1][1].type = "track_name"
            /\ chunks[1][1].name = composition.title
            /\ chunks[1][2].type = "set_tempo"
            /\ chunks[1][2].tempo = Bpm2Tempo(composition.tempo)
            /\ chunks[1][3].type = "time_signature"
            /\ chunks[1][3].numerator = composition.time_signature[1]
            /\ chunks[1][3].denominator = composition.time_signature[2]
            /\ \A k \in 1..3 : chunks[1][k].time = 0
            /\ \A t \in TrackIds :
                 /\ chunks[t + 1][1].type = "track_name"
                 /\ chunks[t + 1][1].name = composition.tracks[t].name
                 /\ chunks[t + 1][2].type = "program_change"
                 /\ chunks[t + 1][2].channel = composition.tracks[t].channel
            /\ composition.tracks = <<>> => Len(chunks) = 1

C17_Witness ==
    /\ Len(composition.tracks) = 2
    /\ composition.tracks[1].channel # composition.tracks[2].channel
    /\ \E x \in ExportIds : Len(exports[x].file.tracks) = 3

(* C18: every per-track chunk consists, in this order, of the track-name    *)
(* event, the program change, the pan controller change (controller 10),    *)
(* the volume controller change (controller 7), then all note events, then  *)
(* exactly one end-of-track event as the last message; a Track with zero    *)
(* elements yields exactly the four setup messages and the end-of-track.    *)
C18_SetupNotesThenEndOfTrack ==
    \A x \in ExportIds : \A t \in TrackIds :
        LET chunk == exports[x].file.tracks[t + 1]
            track == composition.tracks[t]
            n == Len(chunk)
        IN  /\ n = 4 + Len(exports[x].events[t]) + 1
            /\ chunk[1].type = "track_name" /\ chunk[1].name = track.name
            /\ chunk[2].type = "program_change"
            /\ chunk[2].program = track.instrument_program
            /\ chunk[3].type = "control_change"
            /\ chunk[3].control = 10 /\ chunk[3].value = track.pan
            /\ chunk[4].type = "control_change"
            /\ chunk[4].control = 7 /\ chunk[4].value = track.volume
            /\ \A k \in 5..(n - 1) : chunk[k].type \in {"note_on", "note_off"}
            /\ chunk[n].type = "end_of_track"
            /\ Cardinality({k \in 1..n : chunk[k].type = "end_of_track"}) = 1
            /\ track.elements = <<>> => n = 5

C18_Witness ==
    \E x \in ExportIds : \E t, u \in TrackIds :
        /\ composition.tracks[t].elements = <<>>
        /\ Len(exports[x].file.tracks[t + 1]) = 5
        /\ Len(composition.tracks[u].elements) = 2
        /\ Len(exports[x].file.tracks[u + 1]) = 9

----------------------------------------------------------------------------
(* Properties of get_chord_pitches.                                         *)

Cmaj == <<"C", "m", "a", "j">>

(* C9, as claimed: get_chord_pitches("Cmaj", 4, 0, 0) returns [60, 64, 67]  *)
(* and get_chord_pitches("Cmaj", 4, 0, 1) returns [64, 67, 72].             *)
C9_CmajOctave4 ==
    (/\ chord_pc = "done"
     /\ chord_args.chord_symbol = Cmaj
     /\ chord_args.base_octave = 4
     /\ chord_args.octave_offset = 0)
    => /\ chord_args.inversion = 0 => pitches = <<60, 64, 67>>
       /\ chord_args.inversion = 1 => pitches = <<64, 67, 72>>

(* C10, as claimed: for every voicing of the chord table and every          *)
(* inversion count k >= 0, get_chord_pitches makes exactly k rotation       *)
(* steps, and each step removes the lowest pitch of the current list and    *)
(* adds that pitch plus 12.                                                 *)
C10_EachRotationTakesLowest ==
    chord_pc \in {"invert", "done"}
    => /\ Len(popped) = inv_i
       /\ chord_pc = "done" => inv_i = chord_args.inversion
       /\ \A k \in 1..Len(popped) : popped[k].bass_note = popped[k].lowest
       /\ popped # <<>> => pitches[Len(pitches)] = Last(popped).bass_note + 12

(* The keys of the voicing table of the call's module that are a prefix of  *)
(* the text after the root name, by their lengths.                          *)
PrefixKeyLengths ==
    {n \in 1..Len(parsed.quality_str) :
        HasKey(VoicingsOf(chord_args.impl), Prefix(parsed.quality_str, n))}

(* C11, as claimed: for every chord symbol, the quality get_chord_pitches   *)
(* chooses is the longest key of the voicing table that is a prefix of the  *)
(* text after the root name.                                                *)
C11_QualityIsLongestPrefixKey ==
    (chord_pc \in {"invert", "done"} /\ PrefixKeyLengths # {})
    => \E n \in PrefixKeyLengths :
          /\ \A m \in PrefixKeyLengths : m <= n
          /\ parsed.quality = Prefix(parsed.quality_str, n)

(* The root length the claim gives: two characters only when the second is  *)
(* '#' or 'b' and the two are a key of PITCH_MAP.                           *)
ClaimedRootLen(chord_symbol) ==
    IF /\ Len(chord_symbol) > 1
       /\ chord_symbol[2] \in {"#", "b"}
       /\ HasKey(PITCH_MAP, Prefix(chord_symbol, 2))
    THEN 2 ELSE 1

(* C12, as claimed: the root name is the first two characters only if the   *)
(* second is '#' or 'b' and the two are a known pitch name, else the first  *)
(* character alone, the rest being the quality text; the call is rejected   *)
(* exactly when that root is no known pitch name.                           *)
C12_RootTwoCharsOnlyIfKnown ==
    chord_pc # "called"
    => LET n == ClaimedRootLen(chord_args.chord_symbol)
       IN  /\ parsed.root_name = Prefix(chord_args.chord_symbol, n)
           /\ parsed.quality_str = Suffix(chord_args.chord_symbol, n)
           /\ chord_pc = "raised"
                  <=> ~HasKey(PITCH_MAP, Prefix(chord_args.chord_symbol, n))

(* C13: a call whose root is a known pitch name and whose quality text has  *)
(* no prefix in the voicing table (the empty text included) does not raise, *)
(* settles on the quality 'maj' and works with the major triad of the root: *)
(* root, root + 4, root + 7 before the inversion loop, and three pitches of *)
(* those pitch classes when it returns.                                     *)
C13_UnknownQualityFallsBackToMaj ==
    (/\ chord_pc # "called"
     /\ HasKey(PITCH_MAP, parsed.root_name)
     /\ PrefixKeyLengths = {})
    => LET pc == Lookup(PITCH_MAP, parsed.root_name)
       IN  /\ chord_pc # "raised"
           /\ raised = "none"
           /\ parsed.quality = Maj
           /\ Len(pitches) = 3
           /\ inv_i = 0 => /\ pitches[1] % 12 = pc
                           /\ pitches[2] = pitches[1] + 4
                           /\ pitches[3] = pitches[1] + 7
           /\ {pitches[k] % 12 : k \in 1..3}
                  = {pc, (pc + 4) % 12, (pc + 7) % 12}

C13_Witness ==
    /\ chord_pc = "done"
    /\ chord_args.impl = "modular"
    /\ chord_args.chord_symbol = <<"D", "m">>
    /\ chord_args.octave_offset = 0
    /\ chord_args.inversion = 1
    /\ parsed.quality = Maj
    /\ pitches = <<54, 57, 62>>

----------------------------------------------------------------------------
(* Properties of the music-theory helpers.                                  *)

StrictlyAscending(v) == \A k \in 1..(Len(v) - 1) : v[k] < v[k + 1]

CMajorDiatonic ==
    << <<"C", "m", "a", "j">>, <<"D", "m", "i", "n">>, <<"E", "m", "i", "n">>,
       <<"F", "m", "a", "j">>, <<"G", "d", "o", "m", "7">>,
       <<"A", "m", "i", "n">>, <<"B", "d", "i", "m">> >>

(* C14, as claimed: for a root that is a pitch name and a scale type of     *)
(* the tables, get_diatonic_chords returns 7 symbols, symbol i being the    *)
(* sharp-spelled name of pitch class (pitchClass(root) + interval i) mod 12 *)
(* followed by the scale's i-th quality; for ("C", "major") the result is   *)
(* Cmaj, Dmin, Emin, Fmaj, Gdom7, Amin, Bdim.                               *)
C14_DiatonicChordsOfEveryRoot ==
    (/\ call.fn = "get_diatonic_chords"
     /\ result # Pending
     /\ HasKey(PITCH_MAP, call.root_name)
     /\ HasKey(SCALES, call.scale_type))
    => /\ result.status = "returned"
       /\ Len(result.value) = 7
       /\ \A i \in 1..7 :
            result.value[i] =
                NOTE_NAMES[((Lookup(PITCH_MAP, call.root_name)
                             + Lookup(SCALES, call.scale_type)[i]) % 12) + 1]
                \o Lookup(DiatonicQualitiesOf(call.impl), call.scale_type)[i]
       /\ (call.root_name = <<"C">> /\ call.scale_type = "major")
              => result.value = CMajorDiatonic

ScalesOf(impl) == IF impl = "generative" THEN GENERATIVE_SCALES ELSE MELODY_SCALES

(* C15, as claimed: for every root, scale type and octave range,            *)
(* get_scale_notes returns a strictly ascending list without duplicates in  *)
(* which every pitch lies in [0,127]: the pitches root + 12*octave +        *)
(* interval of the range, those outside [0,127] left out.                   *)
C15_ScaleNotesAscendingInRange ==
    (/\ call.fn = "get_scale_notes"
     /\ result # Pending
     /\ HasKey(PITCH_MAP, call.root_note_name)
     /\ HasKey(ScalesOf(call.impl), call.scale_type))
    => /\ result.status = "returned"
       /\ StrictlyAscending(result.value)
       /\ \A k \in 1..Len(result.value) :
            0 <= result.value[k] /\ result.value[k] <= 127
       /\ {result.value[k] : k \in 1..Len(result.value)}
            = {pitch \in {Lookup(PITCH_MAP, call.root_note_name) + 12 * octave + iv :
                            octave \in call.min_octave..call.max_octave,
                            iv \in {Lookup(ScalesOf(call.impl), call.scale_type)[k] :
                                      k \in 1..Len(Lookup(ScalesOf(call.impl),
                                                          call.scale_type))}} :
                  0 <= pitch /\ pitch <= 127}

(* A generate_polyrhythm_onsets call with positive hit counts has returned. *)
OnsetsReturned ==
    /\ call.fn = "generate_polyrhythm_onsets"
    /\ result.status = "returned"
    /\ \A k \in 1..Len(call.rhythms) : call.rhythms[k] > 0

(* The passes of the call, each <<num_hits, i>> standing for the onset      *)
(* i * cycle / num_hits.                                                    *)
OnsetPairs ==
    UNION {{<<call.rhythms[k], i>> : i \in 0..(call.rhythms[k] - 1)} :
              k \in 1..Len(call.rhythms)}

(* Pairs that stand for the same onset are counted once.                    *)
DistinctOnsets ==
    {{q \in OnsetPairs : q[2] * p[1] = p[2] * q[1]} : p \in OnsetPairs}

(* The onsets that lie exactly halfway between two multiples of the unit.   *)
HalfwayOnsets ==
    {{q \in OnsetPairs : q[2] * p[1] = p[2] * q[1]} :
        p \in {t \in OnsetPairs :
                  2 * ((t[2] * call.cycle_duration_beats) % t[1]) = t[1]}}

ThreeAgainstTwo ==
    (call.rhythms = <<3, 2>> /\ call.cycle_duration_beats = 4 * OnsetDen)
    => result.value = <<0, 133333, 200000, 266667>>

----------------------------------------------------------------------------
(* Properties of the entities.                                              *)

(* C19: constructing a Note or a Rest with all fields in range yields an    *)
(* object whose fields read back equal to the arguments; with a pitch or a  *)
(* velocity outside [0,127], a start_time < 0 or a duration <= 0 the call   *)
(* raises a validation error and yields no object.                          *)
C19_NoteAndRestRoundTripOrRaise ==
    /\ call.fn = "Note"
       => LET a == call.args
          IN  IF /\ a[1] \in 0..127 /\ a[4] \in 0..127
                 /\ ~(a[2] < 0) /\ ~(a[3] <= 0)
              THEN /\ raised = "none"
                   /\ entity.kind = "note"
                   /\ entity.obj.pitch = a[1]
                   /\ entity.obj.start_time = a[2]
                   /\ entity.obj.duration = a[3]
                   /\ entity.obj.velocity = a[4]
              ELSE /\ raised = "ValueError"
                   /\ entity = NoEntity
    /\ call.fn = "Rest"
       => LET a == call.args
          IN  IF ~(a[1] < 0) /\ ~(a[2] <= 0)
              THEN /\ raised = "none"
                   /\ entity.kind = "rest"
                   /\ entity.obj.start_time = a[1]
                   /\ entity.obj.duration = a[2]
              ELSE /\ raised = "ValueError"
                   /\ entity = NoEntity

C19_Witness ==
    /\ call.fn = "Note"
    /\ call.args = <<127, 0, OneBeat, 0>>
    /\ entity.kind = "note"
    /\ entity.obj.pitch = 127

(* C20: in every state reached by constructing a Track or a Composition and *)
(* then calling set_instrument and set_tempo any number of times with       *)
(* arbitrary arguments, instrument_program is in [0,127], channel in        *)
(* [0,15], pan in [0,127], volume in [0,127] and tempo > 0; a rejected call *)
(* raises and leaves all fields of the entity unchanged.                    *)
C20_EntitiesStayInRange ==
    /\ [](/\ entity.kind = "track"
             => /\ entity.obj.instrument_program \in 0..127
                /\ entity.obj.channel \in 0..15
                /\ entity.obj.pan \in 0..127
                /\ entity.obj.volume \in 0..127
          /\ entity.kind = "composition" => entity.obj.tempo > 0)
    /\ [][/\ (raised' = "ValueError" /\ entity.kind \in {"track", "composition"})
                => entity' = entity
          /\ (call'.fn = "set_instrument" /\ ~(call'.args[1] \in 0..127))
                => raised' = "ValueError"
          /\ (call'.fn = "set_tempo" /\ ~(call'.args[1] > 0))
                => raised' = "ValueError"]_vars

C20_Witness ==
    /\ entity.kind = "track"
    /\ call.fn = "set_instrument"
    /\ call.args = <<128, "Pad">>
    /\ raised = "ValueError"
    /\ entity.obj.instrument_program = 127
    /\ entity.obj.name = "Pad"

(* A pitch sum brought back into the MIDI range.                            *)
ClampedPitch(sum) == IF sum < 0 THEN 0 ELSE IF sum > 127 THEN 127 ELSE sum

(* `after` is `before` with the pitch moved by `semitones` and clamped, and *)
(* nothing else changed.                                                    *)
Transposed(before, after, semitones) ==
    after = [before EXCEPT !.pitch = ClampedPitch(before.pitch + semitones)]

(* C21: after any sequence of Note.transpose and Chord.transpose calls with *)
(* positive or negative amounts every Note's pitch is in [0,127]; a         *)
(* transpose sets each pitch to pitch + semitones clamped into [0,127] and  *)
(* changes no other field, and a Chord keeps the number of its notes.       *)
C21_TransposeClampsPitchOnly ==
    /\ [](/\ entity.kind = "note" => entity.obj.pitch \in 0..127
          /\ entity.kind = "chord"
                => \A i \in 1..Len(entity.obj.notes) :
                       entity.obj.notes[i].pitch \in 0..127)
    /\ [][/\ call'.fn = "Note.transpose"
                => Transposed(entity.obj, entity'.obj, call'.args[1])
          /\ call'.fn = "Chord.transpose"
                => /\ Len(entity'.obj.notes) = Len(entity.obj.notes)
                   /\ \A i \in 1..Len(entity.obj.notes) :
                          Transposed(entity.obj.notes[i], entity'.obj.notes[i],
                                     call'.args[1])]_vars

(* A Chord of two notes that differ in start time, both pushed down to      *)
(* pitch 0 by a transpose that left the range.                              *)
C21_Witness ==
    /\ entity.kind = "chord"
    /\ call.fn = "Chord.transpose"
    /\ call.args = <<-128>>
    /\ Len(entity.obj.notes) = 2
    /\ entity.obj.notes[1].pitch = 0
    /\ entity.obj.notes[2].pitch = 0
    /\ entity.obj.notes[1].start_time # entity.obj.notes[2].start_time

(* C22: after construction and any sequence of add_note, add_pitches and    *)
(* transpose calls, Chord.notes is ordered by non-decreasing pitch, and     *)
(* Chord.start_time and Chord.duration are those of the first note, which   *)
(* is a note of lowest pitch, or are absent when the Chord has no notes.    *)
C22_ChordOrderedByPitch ==
    entity.kind = "chord"
        => LET notes == entity.obj.notes
           IN  /\ \A i \in 1..Len(notes), j \in 1..Len(notes) :
                      i < j => notes[i].pitch <= notes[j].pitch
               /\ notes = <<>>
                      => /\ StartTime(entity.obj) = None
                         /\ Duration(entity.obj) = None
               /\ notes # <<>>
                      => /\ StartTime(entity.obj) = notes[1].start_time
                         /\ Duration(entity.obj) = notes[1].duration
                         /\ \A i \in 1..Len(notes) :
                                notes[1].pitch <= notes[i].pitch

(* add_note put a lower note from another beat in front of the note the     *)
(* Chord had, and the Chord's start_time moved with it.                     *)
C22_Witness ==
    /\ entity.kind = "chord"
    /\ call.fn = "add_note"
    /\ Len(entity.obj.notes) = 2
    /\ call.args[1] = entity.obj.notes[1]
    /\ entity.obj.notes[1].pitch < entity.obj.notes[2].pitch
    /\ entity.obj.notes[1].start_time # entity.obj.notes[2].start_time
    /\ StartTime(entity.obj) = call.args[1].start_time

----------------------------------------------------------------------------
(* More properties of the timeline and its export.                          *)

(* C23: add_track with a Track whose channel another track of the           *)
(* Composition already uses does not fail: the track becomes the last       *)
(* track and the earlier tracks keep their order; only a non-Track is       *)
(* rejected, with a TypeError, and the track list stays as it was.          *)
C23_ChannelReuseAppendsTrack ==
    [][AddTrack
         => \/ /\ raised' = "none"
               /\ Len(composition'.tracks) = Len(composition.tracks) + 1
               /\ SubSeq(composition'.tracks, 1, Len(composition.tracks))
                      = composition.tracks
               /\ Last(composition'.tracks) \in TrackChoices \ {Junk}
            \/ /\ raised' = "TypeError"
               /\ composition' = composition]_vars

(* Two tracks on one channel, the second added after the first.             *)
C23_Witness ==
    /\ Len(composition.tracks) = 2
    /\ composition.tracks[1].channel = composition.tracks[2].channel
    /\ composition.tracks[1].name = TrackNames[1]
    /\ composition.tracks[2].name = TrackNames[2]
    /\ raised = "none"

NotRest(element) == element.kind # "rest"

(* The track with all its Rest elements removed.                            *)
WithoutRests(track) == [track EXCEPT !.elements = SelectSeq(@, NotRest)]

(* C24: Rest elements contribute no event: for every track the note events  *)
(* and the delta times export() writes are those of the track with all its  *)
(* Rest elements removed, two events for each note and none besides.        *)
C24_RestsEmitNothing ==
    \A x \in ExportIds : \A t \in TrackIds :
        LET track == composition.tracks[t]
        IN  /\ exports[x].events[t]
                   = TrackEvents(WithoutRests(track), DefaultTicksPerBeat)
            /\ exports[x].file.tracks[t + 1]
                   = TrackChunk(WithoutRests(track), DefaultTicksPerBeat)
            /\ Len(exports[x].events[t]) = 2 * Cardinality(NoteSlots(track))

(* An exported track of a Rest and a Note.                                  *)
C24_Witness ==
    \E x \in ExportIds : \E t \in TrackIds :
        LET track == composition.tracks[t]
        IN  /\ Len(track.elements) = 2
            /\ \E i \in 1..2 : track.elements[i].kind = "rest"
            /\ \E i \in 1..2 : track.elements[i].kind = "note"
            /\ Len(exports[x].events[t]) = 2

(* C25, as claimed: for every Note of a track the NoteOn written for it      *)
(* comes before the NoteOff written for it in the track's event stream,     *)
(* also when its start and end fall on the same tick.                       *)
C25_NoteOnBeforeItsNoteOff ==
    \A x \in ExportIds : \A t \in TrackIds :
        LET track == composition.tracks[t]
            ev == exports[x].events[t]
        IN  \A i \in 1..Len(track.elements) :
                track.elements[i].kind = "note"
                    => LET note == track.elements[i]
                           on == NoteOn(Tick(note.start_time,
                                             DefaultTicksPerBeat),
                                        note, track.channel)
                           off == NoteOff(Tick(note.start_time + note.duration,
                                               DefaultTicksPerBeat),
                                          note, track.channel)
                       IN  \E a \in 1..Len(ev), b \in 1..Len(ev) :
                               a < b /\ ev[a] = on /\ ev[b] = off

(* C27, as claimed: every add_element call that raises leaves                *)
(* Track.elements unchanged, for a non-element argument and when the        *)
(* re-sort fails over a Chord with no notes.                                *)
C27_RaisingAddElementChangesNothing ==
    [][(AddElement /\ raised' # "none")
          => composition'.tracks = composition.tracks]_vars

(* C26, as claimed: Track.elements stays sorted ascending by start_time in  *)
(* every reachable state, also after add_note or add_pitches on a Chord     *)
(* that is already in the track changed the Chord's derived start_time.     *)
(* Tracks that hold a Chord without notes, which has no start_time, are     *)
(* left out.                                                                *)
C26_ElementsSortedAfterChordChange ==
    \A t \in TrackIds :
        LET elements == composition.tracks[t].elements
        IN  (\A i \in 1..Len(elements) : ~IsNone(elements[i]))
                => \A i \in 1..Len(elements), j \in 1..Len(elements) :
                       i < j => StartTime(elements[i]) <= StartTime(elements[j])

----------------------------------------------------------------------------
(* Properties of the polyrhythm harmony generator.                          *)

(* The beat at which the first n chords of the progression are over.        *)
RECURSIVE ChordsEnd(_, _)
ChordsEnd(progression, n) ==
    IF n = 0 THEN 0
    ELSE ChordsEnd(progression, n - 1) + progression[n].duration_beats

(* The chords whose interval [start, end) holds the beat: one, or none      *)
(* from the progression's end on.                                           *)
ActiveChords(progression, beat) ==
    {n \in 1..Len(progression) :
        /\ ChordsEnd(progression, n - 1) <= beat
        /\ beat < ChordsEnd(progression, n)}

AllChordsParse(progression) ==
    \A n \in 1..Len(progression) : PitchesOf(progression[n]).status = "returned"

(* C28, as claimed: every melody note has a pitch of the chord of the       *)
(* progression whose interval [start, end) holds the note's start time,     *)
(* also when chords are shorter than the gap between two onsets, and no     *)
(* melody note starts at or after the progression's end.  Progressions      *)
(* with a chord that get_pitches_for_chord refuses are left out.            *)
C28_MelodyNoteFromActiveChord ==
    ("melody_last" \in DOMAIN loop
        /\ loop.melody_last # NoNote
        /\ AllChordsParse(loop.progression))
    => LET note == loop.melody_last
           active == ActiveChords(loop.progression, note.start_time)
       IN  /\ note.start_time
                 < ChordsEnd(loop.progression, Len(loop.progression))
           /\ \A n \in active :
                  LET ps == PitchesOf(loop.progression[n]).value
                  IN  \E i \in 1..Len(ps) : ps[i] = note.pitch

----------------------------------------------------------------------------
(* More properties of the helpers.                                          *)

(* C29, as claimed: for every root name that is a key of PITCH_MAP, the     *)
(* flat spellings Db, Eb, Gb, Ab and Bb among them, and every scale type of *)
(* both SCALES and DIATONIC_QUALITIES, get_diatonic_chords returns 7 chord  *)
(* symbols and does not raise.                                              *)
C29_SevenChordsForEveryPitchName ==
    \A root_name \in Keys(PITCH_MAP) :
        (/\ call.fn = "get_diatonic_chords"
         /\ call.root_name = root_name
         /\ result # Pending
         /\ HasKey(SCALES, call.scale_type)
         /\ HasKey(DiatonicQualitiesOf(call.impl), call.scale_type))
        => /\ result.exception = "none"
           /\ result.status = "returned"
           /\ Len(result.value) = 7

----------------------------------------------------------------------------
(* Properties of the arpeggio loops.                                        *)

(* C30: for every chord duration > 0, every non-empty pattern of positive   *)
(* steps and every non-empty pitch list the arpeggio loop ends; when it     *)
(* has ended the steps taken sum to exactly the chord duration; every note  *)
(* starts inside [chord start, chord start + duration); and every pitch     *)
(* index used is an index of the pitch list.                                *)
C30_ArpeggioEndsAndFillsChord ==
    /\ <>(loop.pc = "done")
    /\ [](/\ loop.pc # "IndexError"
          /\ loop.pc = "done" => loop.arp_time = loop.duration
          /\ loop.arp_time <= loop.duration
          /\ loop.last # NoNote
                => /\ loop.current_time <= loop.last.start_time
                   /\ loop.last.start_time < loop.current_time + loop.duration
                   /\ loop.pitch_index \in 0..(Len(loop.pitches) - 1)
                   /\ loop.last.pitch = loop.pitches[loop.pitch_index + 1])

(* A loop that has ended after a truncated last step: three notes of a      *)
(* 3/8-beat pattern in a chord of one beat, the last read at the index the  *)
(* modular version reaches on its way back down.                            *)
C30_Witness ==
    /\ loop.pc = "done"
    /\ loop.impl = "modular"
    /\ loop.duration = ArpDen
    /\ loop.arp_pattern = <<(3 * ArpDen) \div 8>>
    /\ loop.pitches = <<60, 64>>
    /\ loop.notes_added = 3
    /\ loop.pitch_index = 0
    /\ loop.last.start_time = loop.current_time + (3 * ArpDen) \div 4

====
